---- MODULE Spec2Model ----
(***************************************************************************)
(* minidb: a disk manager over one heap file, a buffer pool with           *)
(* clock-sweep replacement, and a B+-tree of slotted leaf and branch       *)
(* pages.  Pages are modelled byte for byte: a page is a sequence of       *)
(* PageSize bytes,         and every node operation reads and writes the  *)
(* same offsets as the Go code.  A byte string (key, value) is a sequence  *)
(* of bytes.                                                               *)
(***************************************************************************)
EXTENDS Integers, Sequences, FiniteSets, TLC

VARIABLES
  heapFile,      \* the heap file: page number -> 4096 bytes (its size is a multiple of PageSize)
  nextPageID,    \* DiskManager.nextPageID
  frames,        \* BufferPool.frames: frame index -> UsageCount and the Buffer's fields
  nextVictimID,  \* BufferPool.nextVictimID
  pageTable,     \* BufferPoolManager.pageTable: page id -> frame index
  tree,          \* the client's BTree handle: [MetaPageID |-> id], or NoTree before Create
  ret,           \* the last call and what it returned
  inserted,      \* history: the pairs whose Insert returned nil, in call order
  rejected,      \* history: the keys whose Insert returned an error, with the error
  calls          \* history: the number of calls made

vars ==
  <<heapFile, nextPageID, frames, nextVictimID, pageTable, tree, ret, inserted,
    rejected, calls>>

----------------------------------------------------------------------------
(* Bounds of the model. *)

\* Frames of the pool (NewBufferPool's poolSize).
PoolSize == 16
\* Number of distinct keys the client inserts.
KeyCount == 3
\* Length of the common prefix of the long keys.
KeyPad == 1930
\* Length of the long value.
LongValueLen == 1100
\* The number of calls of the tree's client.
MaxCalls == 5
\* The number of calls of the manager's client.
MaxPersistCalls == 6
\* The number of keys the bulk-loading client inserts.
DescendingCount == 6
\* Frames of the small pool of the page client.
SmallPoolSize == 3
\* The number of calls of the page client.
MaxPoolCalls == 6
\* Numbers of separators the branch client inserts in one go: just below
\* maxKeys, and just below the number that fills a page with the short ones.
NearMaxKeys == 98
NearFull == 212
\* Lengths of the values of the leaf client: with the short key, a pair that
\* divides the free space of an empty leaf exactly (113 pairs), and a wide one
\* (4 pairs).
ExactValueLen == 22
WideValueLen == 1003
\* The number of pairs the sequential client inserts.
ManyCount == 100
\* The number of calls of the pinning client.
MaxPinCalls == 5
\* Lengths of the separators of the branch client: a short one, the longest one
\* with which more than maxKeys separators fit a page, and the next longer one.
ShortKeyLen == 8
CapacityKeyLen == 28
\* The number of Next calls the scanning client makes on one iterator.
MaxNexts == 6
\* The sweep client: the frames of its pool, and the largest UsageCount it starts
\* a frame with.
EvictFrames == 3
MaxUsage == 2
\* The codec client: the length of its short byte strings and of its tuples.
MaxStringLen == 2
MaxElems == 2
\* The table client: the number of its calls, and the largest NumKeyElems.
MaxTableCalls == 5
MaxKeyElems == 2

----------------------------------------------------------------------------
(* Program constants. *)

PageSize == 4096
NodeTypeLeaf == 1
NodeTypeBranch == 2
NodeHeaderSize == 8
MetaHeaderSize == 8

LeafPrevPageIDOffset == 0
LeafNextPageIDOffset == 8
LeafNumPairsOffset == 16
LeafFreeSpaceOffsetOffset == 18
LeafHeaderSize == 20
LeafSlotSize == 2

BranchNumChildrenOffset == 0
BranchFreeSpaceOffsetOffset == 2
BranchHeaderSize == 4
BranchSlotSize == 2
BranchChildSize == 8

\* Branch.maxKeys
maxKeys == 100

\* disk.PageID(0xFFFFFFFFFFFFFFFF): the all-ones 64-bit pattern, written here as -1.
InvalidPageID == -1

\* Error values; Nil is Go's nil error.
Nil == "nil"
ErrDuplicateKey == "duplicate key"
ErrNoFreeBuffer == "no free buffer available in pool"
ErrInvalidNodeType == "invalid node type"
\* io.ReadFull on a page past the end of the file.
ErrEOF == "EOF"

\* A short variable declaration, x := e, followed by the code that uses x, is
\* written The({ code : x \in {e} }): the value of the code with x bound to e.
The(S) == CHOOSE result \in S : TRUE

----------------------------------------------------------------------------
(* Bytes.  A Go byte slice is a sequence: Go's data[o] is data[o + 1] here. *)

Uint16(v) == v % 65536

\* binary.LittleEndian.Uint16(data[o:])
readUint16(data, o) == data[o + 1] + 256 * data[o + 2]

\* binary.LittleEndian.PutUint16(data[o:], v)
writeUint16(data, o, v) ==
  [data EXCEPT ![o + 1] = v % 256, ![o + 2] = (v \div 256) % 256]

AllOnes64 == <<255, 255, 255, 255, 255, 255, 255, 255>>

\* binary.LittleEndian.Uint64(data[o:]).  Page ids of the model stay below
\* 2^31, so the value is the low four bytes unless all eight bytes are 0xFF.
readUint64(data, o) ==
  IF SubSeq(data, o + 1, o + 8) = AllOnes64
  THEN InvalidPageID
  ELSE data[o + 1] + 256 * data[o + 2] + 65536 * data[o + 3]
       + 16777216 * (data[o + 4] % 128)

\* binary.LittleEndian.PutUint64(data[o:], v)
writeUint64(data, o, v) ==
  IF v = InvalidPageID
  THEN [data EXCEPT ![o + 1] = 255, ![o + 2] = 255, ![o + 3] = 255, ![o + 4] = 255,
                    ![o + 5] = 255, ![o + 6] = 255, ![o + 7] = 255, ![o + 8] = 255]
  ELSE [data EXCEPT ![o + 1] = v % 256, ![o + 2] = (v \div 256) % 256,
                    ![o + 3] = (v \div 65536) % 256,
                    ![o + 4] = (v \div 16777216) % 256,
                    ![o + 5] = 0, ![o + 6] = 0, ![o + 7] = 0, ![o + 8] = 0]

\* copy(data[o:], src): min(len(data) - o, len(src)) bytes are copied.
copy(data, o, src) ==
  LET n == IF Len(src) < Len(data) - o THEN Len(src) ELSE Len(data) - o
  IN SubSeq(data, 1, o) \o SubSeq(src, 1, n) \o SubSeq(data, o + n + 1, Len(data))

\* data[o : o+n] as a byte string.
slice(data, o, n) == SubSeq(data, o + 1, o + n)

\* The length of the longest common prefix of a and b, which is between lo and
\* hi: a and b agree on their first lo bytes.
RECURSIVE CommonPrefix(_, _, _, _)
CommonPrefix(a, b, lo, hi) ==
  IF lo >= hi
  THEN lo
  ELSE LET mid == (lo + hi + 1) \div 2
       IN IF SubSeq(a, lo + 1, mid) = SubSeq(b, lo + 1, mid)
          THEN CommonPrefix(a, b, mid, hi)
          ELSE CommonPrefix(a, b, lo, mid - 1)

\* bytes.Compare(a, b): -1, 0 or 1, lexicographic, a proper prefix is smaller.
Compare(a, b) ==
  LET n == IF Len(a) < Len(b) THEN Len(a) ELSE Len(b)
      c == CommonPrefix(a, b, 0, n)
  IN IF c = n
     THEN (IF Len(a) < Len(b) THEN -1 ELSE IF Len(a) > Len(b) THEN 1 ELSE 0)
     ELSE IF a[c + 1] < b[c + 1] THEN -1 ELSE 1

\* Page{}: the zero page.
ZeroPage == [i \in 1..PageSize |-> 0]

----------------------------------------------------------------------------
(* Disk manager.  A machine state m is the record of the manager's fields:  *)
(* heapFile, nextPageID, frames, nextVictimID, pageTable; m.io is the log   *)
(* of the disk I/O of the call in progress.                                 *)

\* Number of pages the file holds: fileInfo.Size() / PageSize.
FilePages(file) == Cardinality(DOMAIN file)

\* NewDiskManager: nextPageID from the file size.
NewDiskManager(file) == FilePages(file)

\* DiskManager.ReadPageData: the page, or EOF with the buffer left as it was.
ReadPageData(m, pageID, old) ==
  LET m1 == [m EXCEPT !.io = Append(@, <<"read", pageID>>)]
  IN IF pageID \in DOMAIN m.heapFile
     THEN [m |-> m1, err |-> Nil, data |-> m.heapFile[pageID]]
     ELSE [m |-> m1, err |-> ErrEOF, data |-> old]

\* DiskManager.WritePageData: write at pageID * PageSize; a write past the end
\* extends the file, the gap reading as zeros.
WritePageData(m, pageID, data) ==
  [m EXCEPT !.heapFile =
     [p \in (DOMAIN m.heapFile) \cup (0..pageID) |->
        IF p = pageID THEN data
        ELSE IF p \in DOMAIN m.heapFile THEN m.heapFile[p] ELSE ZeroPage],
            !.io = Append(@, <<"write", pageID>>)]

\* DiskManager.Sync
Sync(m) == [m EXCEPT !.io = Append(@, <<"sync">>)]

\* A faulty allocation that also writes a zero page at the new id; the page id
\* allocation property tells it from AllocatePage.
AllocatePageWrite(m) ==
  [m |-> [WritePageData(m, m.nextPageID, ZeroPage) EXCEPT !.nextPageID = @ + 1],
   pageID |-> m.nextPageID]

\* DiskManager.AllocatePage
AllocatePage(m) ==
  [m |-> [m EXCEPT !.nextPageID = @ + 1], pageID |-> m.nextPageID]

----------------------------------------------------------------------------
(* Buffer pool. *)

\* NewBufferPool(poolSize): every frame {UsageCount: 0, Buffer: &Buffer{}}.
NewBufferPool(poolSize) ==
  [i \in 0..(poolSize - 1) |->
     [UsageCount |-> 0, PageID |-> 0, Page |-> ZeroPage, IsDirty |-> FALSE,
      refCount |-> 0, isValid |-> FALSE]]

\* BufferPool.Size
Size(m) == Cardinality(DOMAIN m.frames)

\* BufferPool.incrementID
incrementID(m, bufferID) == (bufferID + 1) % Size(m)

\* A faulty sweep step that moves the cursor past the victim it returns; the
\* clock-sweep property tells it from EvictStep.
EvictStepAdvance(m, consecutivePinned) ==
  LET id == m.nextVictimID
      frame == m.frames[id]
  IN IF frame.UsageCount = 0
     THEN [m |-> [m EXCEPT !.nextVictimID = incrementID(m, id)],
           consecutivePinned |-> consecutivePinned,
           done |-> TRUE, bufferID |-> id, err |-> Nil]
     ELSE IF frame.refCount = 0
          THEN [m |-> [m EXCEPT !.frames[id].UsageCount = @ - 1,
                                !.nextVictimID = incrementID(m, id)],
                consecutivePinned |-> 0,
                done |-> FALSE, bufferID |-> 0, err |-> Nil]
          ELSE IF consecutivePinned + 1 >= Size(m)
               THEN [m |-> m, consecutivePinned |-> consecutivePinned + 1,
                     done |-> TRUE, bufferID |-> 0, err |-> ErrNoFreeBuffer]
               ELSE [m |-> [m EXCEPT !.nextVictimID = incrementID(m, id)],
                     consecutivePinned |-> consecutivePinned + 1,
                     done |-> FALSE, bufferID |-> 0, err |-> Nil]

\* A faulty sweep step that gives up only after more than Size pinned frames;
\* the exhaustion property tells it from EvictStep.
EvictStepLate(m, consecutivePinned) ==
  LET id == m.nextVictimID
      frame == m.frames[id]
  IN IF frame.UsageCount = 0
     THEN [m |-> m, consecutivePinned |-> consecutivePinned,
           done |-> TRUE, bufferID |-> id, err |-> Nil]
     ELSE IF frame.refCount = 0
          THEN [m |-> [m EXCEPT !.frames[id].UsageCount = @ - 1,
                                !.nextVictimID = incrementID(m, id)],
                consecutivePinned |-> 0,
                done |-> FALSE, bufferID |-> 0, err |-> Nil]
          ELSE IF consecutivePinned + 1 > Size(m)
               THEN [m |-> m, consecutivePinned |-> consecutivePinned + 1,
                     done |-> TRUE, bufferID |-> 0, err |-> ErrNoFreeBuffer]
               ELSE [m |-> [m EXCEPT !.nextVictimID = incrementID(m, id)],
                     consecutivePinned |-> consecutivePinned + 1,
                     done |-> FALSE, bufferID |-> 0, err |-> Nil]

\* A faulty sweep step that keeps counting pinned frames across an unpinned one;
\* the termination property tells it from EvictStep.
EvictStepNoReset(m, consecutivePinned) ==
  LET id == m.nextVictimID
      frame == m.frames[id]
  IN IF frame.UsageCount = 0
     THEN [m |-> m, consecutivePinned |-> consecutivePinned,
           done |-> TRUE, bufferID |-> id, err |-> Nil]
     ELSE IF frame.refCount = 0
          THEN [m |-> [m EXCEPT !.frames[id].UsageCount = @ - 1,
                                !.nextVictimID = incrementID(m, id)],
                consecutivePinned |-> consecutivePinned,
                done |-> FALSE, bufferID |-> 0, err |-> Nil]
          ELSE IF consecutivePinned + 1 >= Size(m)
               THEN [m |-> m, consecutivePinned |-> consecutivePinned + 1,
                     done |-> TRUE, bufferID |-> 0, err |-> ErrNoFreeBuffer]
               ELSE [m |-> [m EXCEPT !.nextVictimID = incrementID(m, id)],
                     consecutivePinned |-> consecutivePinned + 1,
                     done |-> FALSE, bufferID |-> 0, err |-> Nil]

\* One iteration of the loop of BufferPool.Evict, entered with the given
\* consecutivePinned: done tells whether the iteration returned.
EvictStep(m, consecutivePinned) ==
  LET id == m.nextVictimID
      frame == m.frames[id]
  IN IF frame.UsageCount = 0
     THEN [m |-> m, consecutivePinned |-> consecutivePinned,
           done |-> TRUE, bufferID |-> id, err |-> Nil]
     ELSE IF frame.refCount = 0
          THEN [m |-> [m EXCEPT !.frames[id].UsageCount = @ - 1,
                                !.nextVictimID = incrementID(m, id)],
                consecutivePinned |-> 0,
                done |-> FALSE, bufferID |-> 0, err |-> Nil]
          ELSE IF consecutivePinned + 1 >= Size(m)
               THEN [m |-> m, consecutivePinned |-> consecutivePinned + 1,
                     done |-> TRUE, bufferID |-> 0, err |-> ErrNoFreeBuffer]
               ELSE [m |-> [m EXCEPT !.nextVictimID = incrementID(m, id)],
                     consecutivePinned |-> consecutivePinned + 1,
                     done |-> FALSE, bufferID |-> 0, err |-> Nil]

\* BufferPool.Evict: the clock sweep, from consecutivePinned = 0.
RECURSIVE EvictLoop(_, _)
EvictLoop(m, consecutivePinned) ==
  The({ IF s.done
        THEN [m |-> s.m, bufferID |-> s.bufferID, err |-> s.err]
        ELSE EvictLoop(s.m, s.consecutivePinned)
      : s \in {EvictStep(m, consecutivePinned)} })

Evict(m) == EvictLoop(m, 0)

----------------------------------------------------------------------------
(* Buffer pool manager.  A *Buffer is the index of its frame.               *)

\* The write-back of the victim when it is valid and dirty (it cannot fail here:
\* the model has no failing disk).
WriteBackVictim(m, bufferID) ==
  LET frame == m.frames[bufferID]
  IN IF frame.isValid /\ frame.IsDirty
     THEN WritePageData(m, frame.PageID, frame.Page)
     ELSE m

\* The page-table update: delete the victim's entry if it was valid, add pageID.
UpdatePageTable(pt, wasValid, evictPageID, pageID, bufferID) ==
  LET dom == (IF wasValid THEN (DOMAIN pt) \ {evictPageID} ELSE DOMAIN pt)
             \cup {pageID}
  IN [p \in dom |-> IF p = pageID THEN bufferID ELSE pt[p]]

\* A faulty cache miss that enters the page in the page table before the read,
\* so that a failed read leaves the entry behind; the page-table property tells it
\* from FetchPageMiss.
FetchPageMissMapped(m, pageID) ==
  The({ IF ev.err # Nil
        THEN [m |-> ev.m, err |-> ev.err, buf |-> -1]
        ELSE LET bufferID == ev.bufferID
                 frame == ev.m.frames[bufferID]
             IN The({ [m |-> [rd.m EXCEPT
                                !.frames[bufferID].PageID = pageID,
                                !.frames[bufferID].IsDirty = FALSE,
                                !.frames[bufferID].isValid = TRUE,
                                !.frames[bufferID].Page = rd.data,
                                !.frames[bufferID].UsageCount =
                                   IF rd.err = Nil THEN 1 ELSE @,
                                !.frames[bufferID].refCount =
                                   IF rd.err = Nil THEN 1 ELSE @,
                                !.pageTable =
                                   UpdatePageTable(rd.m.pageTable, frame.isValid,
                                                   frame.PageID, pageID, bufferID)],
                       err |-> rd.err,
                       buf |-> IF rd.err = Nil THEN bufferID ELSE -1]
                    : rd \in {ReadPageData(WriteBackVictim(ev.m, bufferID), pageID,
                                           frame.Page)} })
      : ev \in {Evict(m)} })

\* FetchPage on a cache miss: Evict, write the victim back when it is valid and
\* dirty, set the frame's fields, read the page into the frame and, only after a
\* successful read, set the counts and update the page table.
FetchPageMiss(m, pageID) ==
  The({ IF ev.err # Nil
        THEN [m |-> ev.m, err |-> ev.err, buf |-> -1]
        ELSE LET bufferID == ev.bufferID
                 frame == ev.m.frames[bufferID]
                 evictPageID == frame.PageID
                 wasValid == frame.isValid
             IN The({ LET m2 == [rd.m EXCEPT !.frames[bufferID].PageID = pageID,
                                             !.frames[bufferID].IsDirty = FALSE,
                                             !.frames[bufferID].isValid = TRUE,
                                             !.frames[bufferID].Page = rd.data]
                      IN IF rd.err # Nil
                         THEN [m |-> m2, err |-> rd.err, buf |-> -1]
                         ELSE [m |-> [m2 EXCEPT
                                        !.frames[bufferID].UsageCount = 1,
                                        !.frames[bufferID].refCount = 1,
                                        !.pageTable =
                                           UpdatePageTable(rd.m.pageTable, wasValid,
                                                           evictPageID, pageID, bufferID)],
                               err |-> Nil, buf |-> bufferID]
                    : rd \in {ReadPageData(WriteBackVictim(ev.m, bufferID), pageID,
                                           frame.Page)} })
      : ev \in {Evict(m)} })

\* A faulty FetchPage whose hit path does not count the new reference; the
\* FetchPage property tells it from FetchPage.
FetchPageNoRef(m, pageID) ==
  IF pageID \in DOMAIN m.pageTable
  THEN LET bufferID == m.pageTable[pageID]
       IN [m |-> [m EXCEPT !.frames[bufferID].UsageCount = @ + 1],
           err |-> Nil, buf |-> bufferID]
  ELSE FetchPageMiss(m, pageID)

\* BufferPoolManager.FetchPage
FetchPage(m, pageID) ==
  IF pageID \in DOMAIN m.pageTable
  THEN LET bufferID == m.pageTable[pageID]
       IN [m |-> [m EXCEPT !.frames[bufferID].UsageCount = @ + 1,
                           !.frames[bufferID].refCount = @ + 1],
           err |-> Nil, buf |-> bufferID]
  ELSE FetchPageMiss(m, pageID)

\* A faulty CreatePage that takes its page id before it looks for a frame, so a
\* failed Evict consumes an id; the CreatePage property tells it from CreatePage.
CreatePageEager(m) ==
  The({ The({ IF ev.err # Nil
              THEN [m |-> ev.m, err |-> ev.err, buf |-> -1]
              ELSE [m |-> [WriteBackVictim(ev.m, ev.bufferID) EXCEPT
                             !.frames[ev.bufferID] =
                                [UsageCount |-> 1, PageID |-> al.pageID,
                                 Page |-> ZeroPage, IsDirty |-> TRUE,
                                 refCount |-> 1, isValid |-> TRUE],
                             !.pageTable =
                                UpdatePageTable(ev.m.pageTable,
                                                ev.m.frames[ev.bufferID].isValid,
                                                ev.m.frames[ev.bufferID].PageID,
                                                al.pageID, ev.bufferID)],
                    err |-> Nil, buf |-> ev.bufferID]
            : ev \in {Evict(al.m)} })
      : al \in {AllocatePage(m)} })

\* BufferPoolManager.CreatePage
CreatePage(m) ==
  The({ IF ev.err # Nil
        THEN [m |-> ev.m, err |-> ev.err, buf |-> -1]
        ELSE LET bufferID == ev.bufferID
                 frame == ev.m.frames[bufferID]
                 evictPageID == frame.PageID
                 wasValid == frame.isValid
             IN The({ [m |-> [al.m EXCEPT
                                !.frames[bufferID] =
                                   [UsageCount |-> 1, PageID |-> al.pageID,
                                    Page |-> ZeroPage, IsDirty |-> TRUE,
                                    refCount |-> 1, isValid |-> TRUE],
                                !.pageTable =
                                   UpdatePageTable(al.m.pageTable, wasValid,
                                                   evictPageID, al.pageID, bufferID)],
                       err |-> Nil, buf |-> bufferID]
                    : al \in {AllocatePage(WriteBackVictim(ev.m, bufferID))} })
      : ev \in {Evict(m)} })

\* A faulty flush loop that stops after the first page; the persistence property
\* tells it from FlushPages.
FlushFirstPage(m, todo) ==
  IF todo = {}
  THEN m
  ELSE LET pageID == CHOOSE p \in todo : TRUE
           bufferID == m.pageTable[pageID]
           m1 == WritePageData(m, pageID, m.frames[bufferID].Page)
       IN [m1 EXCEPT !.frames[bufferID].IsDirty = FALSE]

\* A faulty flush loop that skips the pages whose buffer is not dirty; the Flush
\* property tells it from FlushPages.
RECURSIVE FlushDirtyPages(_, _)
FlushDirtyPages(m, todo) ==
  IF todo = {}
  THEN m
  ELSE LET pageID == CHOOSE p \in todo : TRUE
           bufferID == m.pageTable[pageID]
       IN FlushDirtyPages(
            IF m.frames[bufferID].IsDirty
            THEN [WritePageData(m, pageID, m.frames[bufferID].Page) EXCEPT
                    !.frames[bufferID].IsDirty = FALSE]
            ELSE m,
            todo \ {pageID})

\* BufferPoolManager.Flush: write every page-table entry's page, clear IsDirty,
\* then Sync.  The writes are to distinct pages and commute; the log lists them
\* in one of the orders Go's map iteration can take.
RECURSIVE FlushPages(_, _)
FlushPages(m, todo) ==
  IF todo = {}
  THEN m
  ELSE LET pageID == CHOOSE p \in todo : TRUE
           bufferID == m.pageTable[pageID]
           m1 == WritePageData(m, pageID, m.frames[bufferID].Page)
       IN FlushPages([m1 EXCEPT !.frames[bufferID].IsDirty = FALSE],
                     todo \ {pageID})

\* A faulty Flush that releases every pin once the pages are written; the pin
\* property tells it from Flush.
FlushUnpin(m) ==
  [m |-> [Sync(FlushPages(m, DOMAIN m.pageTable)) EXCEPT
            !.frames = [f \in DOMAIN @ |-> [@[f] EXCEPT !.refCount = 0]]],
   err |-> Nil]

Flush(m) == [m |-> Sync(FlushPages(m, DOMAIN m.pageTable)), err |-> Nil]

\* buffer.IsDirty = true
SetDirty(m, buf) == [m EXCEPT !.frames[buf].IsDirty = TRUE]

\* The in-place mutation of a buffer's page through a slice of it.
SetPage(m, buf, page) == [m EXCEPT !.frames[buf].Page = page]

----------------------------------------------------------------------------
(* Pair codec. *)

\* Pair.ToBytes: [key_len(2)] [value_len(2)] [key] [value]
ToBytes(pair) ==
  LET keyLen == Len(pair.Key)
      valueLen == Len(pair.Value)
  IN <<Uint16(keyLen) % 256, Uint16(keyLen) \div 256,
       Uint16(valueLen) % 256, Uint16(valueLen) \div 256>>
     \o pair.Key \o pair.Value

\* PairFromBytes(data[o:]).  keyLen is a uint16, and so is 4+keyLen, the upper
\* bound of data[4:4+keyLen] and the lower bound of the value's slice: it wraps
\* for keyLen >= 65532, and the slice expression data[4:4+keyLen] with its
\* upper bound below 4 panics.
PairFromBytesPanics(data, o) == Uint16(4 + readUint16(data, o)) < 4

\* The pair PairFromBytes returns when it does not panic.
PairFromBytes(data, o) ==
  LET keyLen == readUint16(data, o)
      valueLen == readUint16(data, o + 2)
      keyEnd == Uint16(4 + keyLen)
  IN [Key |-> slice(data, o + 4, keyEnd - 4),
      Value |-> slice(data, o + keyEnd, 4 + keyLen + valueLen - keyEnd)]

\* PairSize
PairSize(keyLen, valueLen) == 4 + keyLen + valueLen

----------------------------------------------------------------------------
(* Node header and meta page. *)

\* NewNode(page).Header.NodeType
NodeType(page) == page[1]

\* Node.InitializeAsLeaf / InitializeAsBranch followed by Node.WriteHeader
WriteHeader(page, nodeType) == [page EXCEPT ![1] = nodeType]

\* NewMeta(page).Header.RootPageID
RootPageID(page) == readUint64(page, 0)

\* A faulty Sync that leaves the page as it was; the Create property tells it
\* from MetaSync.
MetaSyncNone(page, rootPageID) == page

\* Meta.Sync after Header.RootPageID = rootPageID
MetaSync(page, rootPageID) == writeUint64(page, 0, rootPageID)

----------------------------------------------------------------------------
(* Leaf: NewLeaf(page[NodeHeaderSize:]).  The operators take the whole page   *)
(* and address l.data[o] as page[LeafData(o)].                                *)

LeafData(o) == NodeHeaderSize + o

\* len(l.data), and len(b.data) of a branch
BodySize == PageSize - NodeHeaderSize

\* Leaf.PrevPageID / NextPageID: InvalidPageID stands for the nil pointer.
PrevPageID(page) == readUint64(page, LeafData(LeafPrevPageIDOffset))
NextPageID(page) == readUint64(page, LeafData(LeafNextPageIDOffset))

\* Leaf.SetPrevPageID / SetNextPageID (nil sets InvalidPageID)
SetPrevPageID(page, id) == writeUint64(page, LeafData(LeafPrevPageIDOffset), id)
SetNextPageID(page, id) == writeUint64(page, LeafData(LeafNextPageIDOffset), id)

\* Leaf.NumPairs / setNumPairs
NumPairs(page) == readUint16(page, LeafData(LeafNumPairsOffset))
setNumPairs(page, n) == writeUint16(page, LeafData(LeafNumPairsOffset), Uint16(n))

\* Leaf.freeSpaceOffset / setFreeSpaceOffset
leafFreeSpaceOffset(page) == readUint16(page, LeafData(LeafFreeSpaceOffsetOffset))
leafSetFreeSpaceOffset(page, offset) ==
  writeUint16(page, LeafData(LeafFreeSpaceOffsetOffset), Uint16(offset))

\* Leaf.slotOffset / getSlot / setSlot
slotOffset(slotID) == LeafHeaderSize + slotID * LeafSlotSize
getSlot(page, slotID) == readUint16(page, LeafData(slotOffset(slotID)))
setSlot(page, slotID, offset) ==
  writeUint16(page, LeafData(slotOffset(slotID)), Uint16(offset))

\* A faulty Leaf.Initialize that starts the pair records at the middle of the
\* body; the property of the 100 inserts tells it from LeafInitialize.
LeafInitializeHalf(page) ==
  leafSetFreeSpaceOffset(
    setNumPairs(SetNextPageID(SetPrevPageID(page, InvalidPageID), InvalidPageID), 0),
    BodySize \div 2)

\* Leaf.Initialize
LeafInitialize(page) ==
  leafSetFreeSpaceOffset(
    setNumPairs(SetNextPageID(SetPrevPageID(page, InvalidPageID), InvalidPageID), 0),
    BodySize)

\* Leaf.freeSpace
leafFreeSpace(page) == leafFreeSpaceOffset(page) - slotOffset(NumPairs(page))

\* Leaf.PairAt
PairAt(page, slotID) == PairFromBytes(page, LeafData(getSlot(page, slotID)))

\* Leaf.SearchSlotID: the binary search, <<slot, found>>.
RECURSIVE SearchSlotIDLoop(_, _, _, _)
SearchSlotIDLoop(page, key, lo, hi) ==
  IF lo < hi
  THEN LET mid == (lo + hi) \div 2
           cmp == Compare(PairAt(page, mid).Key, key)
       IN IF cmp < 0 THEN SearchSlotIDLoop(page, key, mid + 1, hi)
          ELSE IF cmp > 0 THEN SearchSlotIDLoop(page, key, lo, mid)
          ELSE <<mid, TRUE>>
  ELSE <<lo, FALSE>>

SearchSlotID(page, key) == SearchSlotIDLoop(page, key, 0, NumPairs(page))

\* The slot shift of Leaf.Insert: for i := numPairs; i > slotID; i--
\* { setSlot(i, getSlot(i-1)) }; the iterations i, i-1, ..., slotID+1 in that
\* order, taken by halves.
RECURSIVE ShiftSlots(_, _, _)
ShiftSlots(page, i, slotID) ==
  IF i <= slotID
  THEN page
  ELSE IF i = slotID + 1
  THEN setSlot(page, i, getSlot(page, i - 1))
  ELSE The({ ShiftSlots(upper, (i + slotID) \div 2, slotID)
           : upper \in {ShiftSlots(page, i, (i + slotID) \div 2)} })

\* A faulty Leaf.Insert that also refuses a pair which fits exactly; the insert
\* property tells it from LeafInsert.
LeafInsertTight(page, slotID, key, value) ==
  LET pairBytes == ToBytes([Key |-> key, Value |-> value])
      pairLen == Len(pairBytes)
  IN IF leafFreeSpace(page) <= LeafSlotSize + pairLen
     THEN [ok |-> FALSE, page |-> page]
     ELSE LET numPairs == NumPairs(page)
              shifted == ShiftSlots(page, numPairs, slotID)
              newOffset == Uint16(leafFreeSpaceOffset(page) - Uint16(pairLen))
              written == copy(shifted, LeafData(newOffset), pairBytes)
          IN [ok |-> TRUE,
              page |-> setNumPairs(
                         leafSetFreeSpaceOffset(setSlot(written, slotID, newOffset),
                                                newOffset),
                         numPairs + 1)]

\* Leaf.Insert: [ok, page].
LeafInsert(page, slotID, key, value) ==
  LET pairBytes == ToBytes([Key |-> key, Value |-> value])
      pairLen == Len(pairBytes)
  IN IF leafFreeSpace(page) < LeafSlotSize + pairLen
     THEN [ok |-> FALSE, page |-> page]
     ELSE LET numPairs == NumPairs(page)
              shifted == ShiftSlots(page, numPairs, slotID)
              newOffset == Uint16(leafFreeSpaceOffset(page) - Uint16(pairLen))
              written == copy(shifted, LeafData(newOffset), pairBytes)
          IN [ok |-> TRUE,
              page |-> setNumPairs(
                         leafSetFreeSpaceOffset(setSlot(written, slotID, newOffset),
                                                newOffset),
                         numPairs + 1)]

\* The insert position of Leaf.SplitInsert: for insertPos < len(pairs) &&
\* bytes.Compare(pairs[insertPos].Key, key) < 0 { insertPos++ }, the scan of the
\* positions insertPos, ..., to-1 taken by halves: the first of them whose key is
\* not < key, or to.
RECURSIVE LeafInsertPos(_, _, _, _)
LeafInsertPos(pairs, key, insertPos, to) ==
  IF insertPos >= to
  THEN to
  ELSE IF to = insertPos + 1
  THEN (IF Compare(pairs[insertPos + 1].Key, key) < 0 THEN to ELSE insertPos)
  ELSE The({ IF first < (insertPos + to) \div 2
             THEN first
             ELSE LeafInsertPos(pairs, key, (insertPos + to) \div 2, to)
           : first \in {LeafInsertPos(pairs, key, insertPos,
                                      (insertPos + to) \div 2)} })

\* for i := from; i < to; i++ { leaf.Insert(i-from, pairs[i].Key, pairs[i].Value) }
\* (pairs is 1-indexed here: pairs[i+1] is Go's pairs[i]); the iterations i, ...,
\* to-1 in that order, taken by halves.
RECURSIVE InsertAll(_, _, _, _, _)
InsertAll(page, pairs, from, to, i) ==
  IF i >= to
  THEN page
  ELSE IF i = to - 1
  THEN LeafInsert(page, i - from, pairs[i + 1].Key, pairs[i + 1].Value).page
  ELSE The({ InsertAll(first, pairs, from, to, (i + to) \div 2)
           : first \in {InsertAll(page, pairs, from, (i + to) \div 2, i)} })

\* Leaf.SplitInsert: [page (l), newPage (newLeaf), key (the overflow key)].
LeafSplitInsert(page, newPage, key, value) ==
  LET old == [i \in 1..NumPairs(page) |-> PairAt(page, i - 1)]
      insertPos == LeafInsertPos(old, key, 0, Len(old))
      newPair == [Key |-> key, Value |-> value]
  IN The({ LET mid == Len(pairs) \div 2
           IN [newPage |-> InsertAll(LeafInitialize(newPage), pairs, 0, mid, 0),
               page |-> InsertAll(LeafInitialize(page), pairs, mid, Len(pairs), mid),
               key |-> pairs[mid].Key]
         : pairs \in {SubSeq(old, 1, insertPos) \o <<newPair>>
                      \o SubSeq(old, insertPos + 1, Len(old))} })

----------------------------------------------------------------------------
(* Branch: NewBranch(page[NodeHeaderSize:]), b.data[o] = page[BranchData(o)]. *)

BranchData(o) == NodeHeaderSize + o

\* Branch.NumChildren / setNumChildren
NumChildren(page) == readUint16(page, BranchData(BranchNumChildrenOffset))
setNumChildren(page, n) ==
  writeUint16(page, BranchData(BranchNumChildrenOffset), Uint16(n))

\* Branch.freeSpaceOffset / setFreeSpaceOffset
branchFreeSpaceOffset(page) ==
  readUint16(page, BranchData(BranchFreeSpaceOffsetOffset))
branchSetFreeSpaceOffset(page, offset) ==
  writeUint16(page, BranchData(BranchFreeSpaceOffsetOffset), Uint16(offset))

\* Branch.NumKeys
NumKeys(page) == IF NumChildren(page) = 0 THEN 0 ELSE NumChildren(page) - 1

\* Branch.keySlotOffset / childOffset
keySlotOffset(idx) == BranchHeaderSize + idx * BranchSlotSize
childOffset(idx) == BranchHeaderSize + maxKeys * BranchSlotSize + idx * BranchChildSize

\* Branch.getKeySlot / setKeySlot
getKeySlot(page, idx) == readUint16(page, BranchData(keySlotOffset(idx)))
setKeySlot(page, idx, offset) ==
  writeUint16(page, BranchData(keySlotOffset(idx)), Uint16(offset))

\* Branch.ChildAt / setChild
ChildAt(page, idx) == readUint64(page, BranchData(childOffset(idx)))
setChild(page, idx, pageID) == writeUint64(page, BranchData(childOffset(idx)), pageID)

\* Branch.KeyAt
KeyAt(page, idx) ==
  LET offset == getKeySlot(page, idx)
      keyLen == readUint16(page, BranchData(offset))
  IN slice(page, BranchData(offset + 2), keyLen)

\* Branch.KeyAt panics when the slot's offset or the key length stored there
\* leads outside b.data: b.data[offset:] and the two length bytes must lie within
\* the body, and the bounds offset+2 and offset+2+keyLen, computed in uint16,
\* must be ordered and within the body.
KeyAtPanics(page, idx) ==
  LET offset == getKeySlot(page, idx)
  IN \/ offset + 2 > BodySize
     \/ Uint16(offset + 2) > Uint16(offset + 2 + readUint16(page, BranchData(offset)))
     \/ Uint16(offset + 2 + readUint16(page, BranchData(offset))) > BodySize

\* The key record write shared by Initialize, Insert and SplitInsert:
\* newOffset := freeSpaceOffset - uint16(2+len(key)); write the length and the
\* key there; setKeySlot(idx, newOffset); setFreeSpaceOffset(newOffset).
writeKey(page, idx, key) ==
  LET newOffset == Uint16(branchFreeSpaceOffset(page) - Uint16(2 + Len(key)))
      p1 == writeUint16(page, BranchData(newOffset), Uint16(Len(key)))
      p2 == copy(p1, BranchData(newOffset + 2), key)
  IN branchSetFreeSpaceOffset(setKeySlot(p2, idx, newOffset), newOffset)

\* Branch.Initialize
BranchInitialize(page, key, leftChild, rightChild) ==
  LET p1 == branchSetFreeSpaceOffset(setNumChildren(page, 2), BodySize)
  IN setChild(setChild(writeKey(p1, 0, key), 0, leftChild), 1, rightChild)

\* A faulty binary search that stops at the first separator >= key, sending a
\* key equal to a separator to the child on its left; the search property tells
\* it from SearchChildIdxLoop.
RECURSIVE SearchChildIdxLower(_, _, _, _)
SearchChildIdxLower(page, key, lo, hi) ==
  IF lo < hi
  THEN LET mid == (lo + hi) \div 2
       IN IF Compare(KeyAt(page, mid), key) < 0
          THEN SearchChildIdxLower(page, key, mid + 1, hi)
          ELSE SearchChildIdxLower(page, key, lo, mid)
  ELSE lo

\* Branch.SearchChildIdx: the binary search for the first separator > key.
RECURSIVE SearchChildIdxLoop(_, _, _, _)
SearchChildIdxLoop(page, key, lo, hi) ==
  IF lo < hi
  THEN LET mid == (lo + hi) \div 2
       IN IF Compare(KeyAt(page, mid), key) <= 0
          THEN SearchChildIdxLoop(page, key, mid + 1, hi)
          ELSE SearchChildIdxLoop(page, key, lo, mid)
  ELSE lo

SearchChildIdx(page, key) == SearchChildIdxLoop(page, key, 0, NumKeys(page))

\* Branch.SearchChild
SearchChild(page, key) == ChildAt(page, SearchChildIdx(page, key))

\* Branch.freeSpace
branchFreeSpace(page) ==
  branchFreeSpaceOffset(page)
  - (BranchHeaderSize + maxKeys * BranchSlotSize + NumChildren(page) * BranchChildSize)

\* for i := numChildren; i > childIdx+1; i-- { setChild(i, ChildAt(i-1)) }
\* The iterations i = hi, hi-1, ..., lo+1 in that order, taken by halves.
RECURSIVE ShiftChildren(_, _, _)
ShiftChildren(page, i, childIdx) ==
  IF i <= childIdx + 1
  THEN page
  ELSE IF i = childIdx + 2
  THEN setChild(page, i, ChildAt(page, i - 1))
  ELSE The({ ShiftChildren(upper, (i + childIdx + 1) \div 2, childIdx)
           : upper \in {ShiftChildren(page, i, ((i + childIdx + 1) \div 2) - 1)} })

\* for i := numKeys; i > childIdx; i-- { setKeySlot(i, getKeySlot(i-1)) }
\* The iterations i = hi, hi-1, ..., lo+1 in that order, taken by halves.
RECURSIVE ShiftKeySlots(_, _, _)
ShiftKeySlots(page, i, childIdx) ==
  IF i <= childIdx
  THEN page
  ELSE IF i = childIdx + 1
  THEN setKeySlot(page, i, getKeySlot(page, i - 1))
  ELSE The({ ShiftKeySlots(upper, (i + childIdx) \div 2, childIdx)
           : upper \in {ShiftKeySlots(page, i, (i + childIdx) \div 2)} })

\* Branch.Insert: [ok, page].
BranchInsert(page, childIdx, key, newChildPageID) ==
  LET needed == 2 + Len(key) + BranchChildSize
  IN IF branchFreeSpace(page) < needed
     THEN [ok |-> FALSE, page |-> page]
     ELSE LET numChildren == NumChildren(page)
              numKeys == NumKeys(page)
              p1 == setChild(ShiftChildren(page, numChildren, childIdx),
                             childIdx + 1, newChildPageID)
              p2 == ShiftKeySlots(p1, numKeys, childIdx)
              p3 == writeKey(p2, childIdx, key)
          IN [ok |-> TRUE, page |-> setNumChildren(p3, numChildren + 1)]

\* The insert position of Branch.SplitInsert: for insertPos < len(keys) &&
\* bytes.Compare(keys[insertPos], key) <= 0 { insertPos++ }, the scan of the
\* positions insertPos, ..., to-1 taken by halves: the first of them whose
\* separator is > key, or to.
RECURSIVE BranchInsertPos(_, _, _, _)
BranchInsertPos(keys, key, insertPos, to) ==
  IF insertPos >= to
  THEN to
  ELSE IF to = insertPos + 1
  THEN (IF Compare(keys[insertPos + 1], key) <= 0 THEN to ELSE insertPos)
  ELSE The({ IF first < (insertPos + to) \div 2
             THEN first
             ELSE BranchInsertPos(keys, key, (insertPos + to) \div 2, to)
           : first \in {BranchInsertPos(keys, key, insertPos,
                                        (insertPos + to) \div 2)} })

\* for i := from; i < to; i++ { write keys[i] and set key slot i-from }
\* (keys is 1-indexed here: keys[i+1] is Go's keys[i]); the iterations i, ...,
\* to-1 in that order, taken by halves.
RECURSIVE WriteKeys(_, _, _, _, _)
WriteKeys(page, keys, from, to, i) ==
  IF i >= to
  THEN page
  ELSE IF i = to - 1
  THEN writeKey(page, i - from, keys[i + 1])
  ELSE The({ WriteKeys(first, keys, from, to, (i + to) \div 2)
           : first \in {WriteKeys(page, keys, from, (i + to) \div 2, i)} })

\* for i := from; i <= to; i++ { setChild(i-from, children[i]) }; the iterations
\* i, ..., to in that order, taken by halves.
RECURSIVE SetChildren(_, _, _, _, _)
SetChildren(page, children, from, to, i) ==
  IF i > to
  THEN page
  ELSE IF i = to
  THEN setChild(page, i - from, children[i + 1])
  ELSE The({ SetChildren(first, children, from, to, ((i + to) \div 2) + 1)
           : first \in {SetChildren(page, children, from, (i + to) \div 2, i)} })

\* Branch.SplitInsert: [page (b), newPage (newBranch), key (the overflow key)].
BranchSplitInsert(page, newPage, key, newChildPageID) ==
  LET numKeys == NumKeys(page)
      oldKeys == [i \in 1..numKeys |-> KeyAt(page, i - 1)]
      oldChildren == [i \in 1..(numKeys + 1) |-> ChildAt(page, i - 1)]
      insertPos == BranchInsertPos(oldKeys, key, 0, numKeys)
  IN The({ LET mid == Len(keys) \div 2
               n1 == branchSetFreeSpaceOffset(setNumChildren(newPage, mid + 1), BodySize)
               b1 == branchSetFreeSpaceOffset(setNumChildren(page, Len(keys) - mid),
                                              BodySize)
           IN [newPage |-> SetChildren(WriteKeys(n1, keys, 0, mid, 0),
                                       children, 0, mid, 0),
               page |-> SetChildren(WriteKeys(b1, keys, mid + 1, Len(keys), mid + 1),
                                    children, mid + 1, Len(keys), mid + 1),
               key |-> keys[mid + 1]]
         : keys \in {SubSeq(oldKeys, 1, insertPos) \o <<key>>
                     \o SubSeq(oldKeys, insertPos + 1, Len(oldKeys))},
           children \in {SubSeq(oldChildren, 1, insertPos + 1) \o <<newChildPageID>>
                         \o SubSeq(oldChildren, insertPos + 2, Len(oldChildren))} })

----------------------------------------------------------------------------
(* B+-tree.  An optional value (a nil pointer or a value) is a sequence of   *)
(* length 0 or 1.                                                             *)

NoBuffer == -1

\* NewSearchStart / NewSearchKey
NewSearchStart == [Mode |-> "Start"]
NewSearchKey(key) == [Mode |-> "Key", Key |-> key]

\* Search.childPageID
childPageID(search, page) ==
  IF search.Mode = "Key" THEN SearchChild(page, search.Key) ELSE ChildAt(page, 0)

\* Search.tupleSlotID
tupleSlotID(search, page) ==
  IF search.Mode = "Key" THEN SearchSlotID(page, search.Key) ELSE <<0, FALSE>>

\* The page a buffer holds now.
PageOf(m, buf) == m.frames[buf].Page

\* Create: [m, err, tree].
Create(m) ==
  The({ IF c1.err # Nil
        THEN [m |-> c1.m, err |-> c1.err, tree |-> <<>>]
        ELSE The({ IF c2.err # Nil
                   THEN [m |-> c2.m, err |-> c2.err, tree |-> <<>>]
                   ELSE LET metaBuffer == c1.buf
                            rootBuffer == c2.buf
                            rootPage == LeafInitialize(
                                          WriteHeader(PageOf(c2.m, rootBuffer),
                                                      NodeTypeLeaf))
                            m1 == SetPage(c2.m, rootBuffer, rootPage)
                            m2 == SetPage(m1, metaBuffer,
                                          MetaSync(PageOf(m1, metaBuffer),
                                                   c2.m.frames[rootBuffer].PageID))
                        IN [m |-> SetDirty(SetDirty(m2, metaBuffer), rootBuffer),
                            err |-> Nil,
                            tree |-> <<[MetaPageID |-> c2.m.frames[metaBuffer].PageID]>>]
                 : c2 \in {CreatePage(c1.m)} })
      : c1 \in {CreatePage(m)} })

\* NewBTree
NewBTree(metaPageID) == [MetaPageID |-> metaPageID]

\* BTree.fetchRootPage: [m, err, buf].
fetchRootPage(m, t) ==
  The({ IF f.err # Nil
        THEN f
        ELSE FetchPage(f.m, RootPageID(PageOf(f.m, f.buf)))
      : f \in {FetchPage(m, t.MetaPageID)} })

\* Iter.get: the pair at the iterator's position, or nil.
get(m, it) ==
  IF it.slotID < NumPairs(PageOf(m, it.buffer))
  THEN <<PairAt(PageOf(m, it.buffer), it.slotID)>>
  ELSE <<>>

\* A faulty advance that keeps the slot number when it moves to the next leaf;
\* the iterator protocol tells it from advance.
advanceKeepSlot(m, it) ==
  LET slotID == it.slotID + 1
      page == PageOf(m, it.buffer)
      next == NextPageID(page)
  IN IF slotID < NumPairs(page)
     THEN [m |-> m, err |-> Nil, it |-> [it EXCEPT !.slotID = slotID]]
     ELSE IF next # InvalidPageID
          THEN The({ IF f.err # Nil
                     THEN [m |-> f.m, err |-> f.err,
                           it |-> [it EXCEPT !.slotID = slotID]]
                     ELSE [m |-> f.m, err |-> Nil,
                           it |-> [buffer |-> f.buf, slotID |-> slotID]]
                   : f \in {FetchPage(m, next)} })
          ELSE [m |-> m, err |-> Nil, it |-> [it EXCEPT !.slotID = slotID]]

\* Iter.advance: [m, err, it].
advance(m, it) ==
  LET slotID == it.slotID + 1
      page == PageOf(m, it.buffer)
      next == NextPageID(page)
  IN IF slotID < NumPairs(page)
     THEN [m |-> m, err |-> Nil, it |-> [it EXCEPT !.slotID = slotID]]
     ELSE IF next # InvalidPageID
          THEN The({ IF f.err # Nil
                     THEN [m |-> f.m, err |-> f.err,
                           it |-> [it EXCEPT !.slotID = slotID]]
                     ELSE [m |-> f.m, err |-> Nil,
                           it |-> [buffer |-> f.buf, slotID |-> 0]]
                   : f \in {FetchPage(m, next)} })
          ELSE [m |-> m, err |-> Nil, it |-> [it EXCEPT !.slotID = slotID]]

\* Iter.Next: [m, err, pair, it].
IterNext(m, it) ==
  The({ [m |-> a.m, err |-> a.err, it |-> a.it,
         pair |-> IF a.err # Nil THEN <<>> ELSE get(m, it)]
      : a \in {advance(m, it)} })

\* BTree.searchInternal: [m, err, it] (it is a sequence: empty on error).
RECURSIVE searchInternal(_, _, _)
searchInternal(m, nodeBuffer, search) ==
  LET page == PageOf(m, nodeBuffer)
  IN IF NodeType(page) = NodeTypeLeaf
     THEN LET slotID == tupleSlotID(search, page)[1]
              isRightMost == NumPairs(page) = slotID
              iter == [buffer |-> nodeBuffer, slotID |-> slotID]
          IN IF isRightMost
             THEN The({ IF a.err # Nil
                        THEN [m |-> a.m, err |-> a.err, it |-> <<>>]
                        ELSE [m |-> a.m, err |-> Nil, it |-> <<a.it>>]
                      : a \in {advance(m, iter)} })
             ELSE [m |-> m, err |-> Nil, it |-> <<iter>>]
     ELSE IF NodeType(page) = NodeTypeBranch
          THEN The({ IF f.err # Nil
                     THEN [m |-> f.m, err |-> f.err, it |-> <<>>]
                     ELSE searchInternal(f.m, f.buf, search)
                   : f \in {FetchPage(m, childPageID(search, page))} })
          ELSE [m |-> m, err |-> ErrInvalidNodeType, it |-> <<>>]

\* BTree.Search: [m, err, it].
Search(m, t, search) ==
  The({ IF r.err # Nil
        THEN [m |-> r.m, err |-> r.err, it |-> <<>>]
        ELSE searchInternal(r.m, r.buf, search)
      : r \in {fetchRootPage(m, t)} })

----------------------------------------------------------------------------
(* Insert. *)

\* The leaf split of insertInternal (btree.go, "split needed"): [m, err, overflow].
leafSplit(m, nodeBuffer, key, value) ==
  LET prevPageID == PrevPageID(PageOf(m, nodeBuffer))
  IN The({ IF fp.err # Nil
           THEN [m |-> fp.m, err |-> fp.err, overflow |-> <<>>]
           ELSE The({ IF cp.err # Nil
                      THEN [m |-> cp.m, err |-> cp.err, overflow |-> <<>>]
                      ELSE LET prevBuffer == fp.buf
                               newLeafBuffer == cp.buf
                               newPageID == cp.m.frames[newLeafBuffer].PageID
                               \* prevLeaf.SetNextPageID(&newLeafBuffer.PageID)
                               m1 == IF prevBuffer # NoBuffer
                                     THEN SetDirty(
                                            SetPage(cp.m, prevBuffer,
                                              SetNextPageID(PageOf(cp.m, prevBuffer),
                                                            newPageID)),
                                            prevBuffer)
                                     ELSE cp.m
                               \* leaf.SetPrevPageID(&newLeafBuffer.PageID);
                               \* newLeafNode.WriteHeader; newLeaf.Initialize()
                               m3 == [m1 EXCEPT
                                        !.frames[nodeBuffer].Page =
                                           SetPrevPageID(@, newPageID),
                                        !.frames[newLeafBuffer].Page =
                                           LeafInitialize(WriteHeader(@, NodeTypeLeaf))]
                           IN The({ LET m4 == SetPage(m3, nodeBuffer, sp.page)
                                        \* newLeaf.SetNextPageID(&nodeBuffer.PageID);
                                        \* newLeaf.SetPrevPageID(prevPageID)
                                        m5 == SetPage(m4, newLeafBuffer,
                                                SetPrevPageID(
                                                  SetNextPageID(
                                                    sp.newPage,
                                                    cp.m.frames[nodeBuffer].PageID),
                                                  prevPageID))
                                    IN [m |-> SetDirty(SetDirty(m5, nodeBuffer),
                                                       newLeafBuffer),
                                        err |-> Nil,
                                        overflow |-> <<[key |-> sp.key,
                                                        childPageID |-> newPageID]>>]
                                  : sp \in {LeafSplitInsert(PageOf(m3, nodeBuffer),
                                                            PageOf(m3, newLeafBuffer),
                                                            key, value)} })
                    : cp \in {CreatePage(fp.m)} })
         : fp \in {IF prevPageID # InvalidPageID
                   THEN FetchPage(m, prevPageID)
                   ELSE [m |-> m, err |-> Nil, buf |-> NoBuffer]} })

\* The branch split of insertInternal: [m, err, overflow].
branchSplit(m, nodeBuffer, childOverflow) ==
  The({ IF cp.err # Nil
        THEN [m |-> cp.m, err |-> cp.err, overflow |-> <<>>]
        ELSE LET newBranchBuffer == cp.buf
                 m1 == SetPage(cp.m, newBranchBuffer,
                               WriteHeader(PageOf(cp.m, newBranchBuffer), NodeTypeBranch))
             IN The({ [m |-> SetDirty(
                               SetDirty(
                                 SetPage(SetPage(m1, nodeBuffer, sp.page),
                                         newBranchBuffer, sp.newPage),
                                 nodeBuffer),
                               newBranchBuffer),
                       err |-> Nil,
                       overflow |-> <<[key |-> sp.key,
                                       childPageID |->
                                         cp.m.frames[newBranchBuffer].PageID]>>]
                    : sp \in {BranchSplitInsert(PageOf(m1, nodeBuffer),
                                                PageOf(m1, newBranchBuffer),
                                                childOverflow.key,
                                                childOverflow.childPageID)} })
      : cp \in {CreatePage(m)} })

\* The position and the page id of the new child that insertInternal hands to
\* Branch.Insert: branch.Insert(childIdx, childOverflow.key, childOverflow.childPageID).
branchInsertCall(page, childIdx, childOverflow) ==
  BranchInsert(page, childIdx, childOverflow.key, childOverflow.childPageID)

\* BTree.insertInternal: [m, err, overflow].
RECURSIVE insertInternal(_, _, _, _)
insertInternal(m, nodeBuffer, key, value) ==
  LET page == PageOf(m, nodeBuffer)
  IN IF NodeType(page) = NodeTypeLeaf
     THEN The({ IF s[2]
                THEN [m |-> m, err |-> ErrDuplicateKey, overflow |-> <<>>]
                ELSE The({ IF ins.ok
                           THEN [m |-> SetDirty(SetPage(m, nodeBuffer, ins.page),
                                                nodeBuffer),
                                 err |-> Nil, overflow |-> <<>>]
                           ELSE leafSplit(m, nodeBuffer, key, value)
                         : ins \in {LeafInsert(page, s[1], key, value)} })
              : s \in {SearchSlotID(page, key)} })
     ELSE IF NodeType(page) = NodeTypeBranch
          THEN The({ The({ IF f.err # Nil
                           THEN [m |-> f.m, err |-> f.err, overflow |-> <<>>]
                           ELSE The({ IF r.err # Nil \/ r.overflow = <<>>
                                      THEN r
                                      ELSE The({ IF bi.ok
                                                 THEN [m |-> SetDirty(
                                                               SetPage(r.m, nodeBuffer,
                                                                       bi.page),
                                                               nodeBuffer),
                                                       err |-> Nil, overflow |-> <<>>]
                                                 ELSE branchSplit(r.m, nodeBuffer,
                                                                  r.overflow[1])
                                               : bi \in {branchInsertCall(
                                                           PageOf(r.m, nodeBuffer),
                                                           childIdx, r.overflow[1])} })
                                    : r \in {insertInternal(f.m, f.buf, key, value)} })
                         : f \in {FetchPage(m, ChildAt(page, childIdx))} })
                   : childIdx \in {SearchChildIdx(page, key)} })
          ELSE [m |-> m, err |-> ErrInvalidNodeType, overflow |-> <<>>]

\* A faulty new root with the old root as child 0 and the overflow's page as
\* child 1; the root replacement property tells it from newRoot.
newRootSwapped(page, overflow, rootPageID) ==
  BranchInitialize(WriteHeader(page, NodeTypeBranch),
                   overflow.key, rootPageID, overflow.childPageID)

\* The new root of BTree.Insert:
\* branch.Initialize(overflow.key, overflow.childPageID, rootPageID).
newRoot(page, overflow, rootPageID) ==
  BranchInitialize(WriteHeader(page, NodeTypeBranch),
                   overflow.key, overflow.childPageID, rootPageID)

\* BTree.Insert: [m, err].
Insert(m, t, key, value) ==
  The({ IF fm.err # Nil
        THEN [m |-> fm.m, err |-> fm.err]
        ELSE LET metaBuffer == fm.buf
                 rootPageID == RootPageID(PageOf(fm.m, metaBuffer))
             IN The({ IF fr.err # Nil
                      THEN [m |-> fr.m, err |-> fr.err]
                      ELSE The({ IF r.err # Nil
                                 THEN [m |-> r.m, err |-> r.err]
                                 ELSE IF r.overflow = <<>>
                                      THEN [m |-> r.m, err |-> Nil]
                                      ELSE The({ IF cp.err # Nil
                                                 THEN [m |-> cp.m, err |-> cp.err]
                                                 ELSE [m |-> SetDirty(
                                                               SetDirty(
                                                                 [cp.m EXCEPT
                                                                    !.frames[cp.buf].Page =
                                                                       newRoot(@, r.overflow[1],
                                                                               rootPageID),
                                                                    !.frames[metaBuffer].Page =
                                                                       MetaSync(@,
                                                                         cp.m.frames[cp.buf].PageID)],
                                                                 metaBuffer),
                                                               cp.buf),
                                                       err |-> Nil]
                                               : cp \in {CreatePage(r.m)} })
                               : r \in {insertInternal(fr.m, fr.buf, key, value)} })
                    : fr \in {FetchPage(fm.m, rootPageID)} })
      : fm \in {FetchPage(m, t.MetaPageID)} })

----------------------------------------------------------------------------
(* The clients' loops over an iterator, as in TestBTreeIterateAll.            *)

\* for { pair, err := iter.Next(bufmgr); if pair == nil { break }; append }:
\* [m, err, pairs].
RECURSIVE NextLoop(_, _, _)
NextLoop(m, it, pairs) ==
  The({ IF r.err # Nil
        THEN [m |-> r.m, err |-> r.err, pairs |-> pairs]
        ELSE IF r.pair = <<>>
             THEN [m |-> r.m, err |-> Nil, pairs |-> pairs]
             ELSE NextLoop(r.m, r.it, pairs \o r.pair)
      : r \in {IterNext(m, it)} })

\* tree.Search(bufmgr, search) followed by that loop: [m, err, pairs].
ScanFrom(m, t, search) ==
  The({ IF s.err # Nil
        THEN [m |-> s.m, err |-> s.err, pairs |-> <<>>]
        ELSE NextLoop(s.m, s.it[1], <<>>)
      : s \in {Search(m, t, search)} })

\* tree.Search(bufmgr, NewSearchKey(key)) followed by one iter.Next, as in
\* TestBTreeInsertAndSearch: [m, err, pair].
SearchOne(m, t, key) ==
  The({ IF s.err # Nil
        THEN [m |-> s.m, err |-> s.err, pair |-> <<>>]
        ELSE The({ [m |-> r.m, err |-> r.err, pair |-> r.pair]
                 : r \in {IterNext(s.m, s.it[1])} })
      : s \in {Search(m, t, NewSearchKey(key))} })

----------------------------------------------------------------------------
(* Table layer: tuples.  A Tuple is a sequence of byte strings.               *)

\* The loop of Tuple.Encode over the elements, [elem_len: 2] [elem_data] each.
\* The loop over a tuple is run as the loop over its first half followed by the
\* loop over the rest, which keeps the recursion shallow on long tuples.
RECURSIVE EncodeElems(_)
EncodeElems(t) ==
  IF Len(t) = 0
  THEN <<>>
  ELSE IF Len(t) = 1
       THEN <<Uint16(Len(t[1])) % 256, Uint16(Len(t[1])) \div 256>> \o t[1]
       ELSE EncodeElems(SubSeq(t, 1, Len(t) \div 2))
            \o EncodeElems(SubSeq(t, Len(t) \div 2 + 1, Len(t)))

\* A faulty encoding that keeps one byte of the element count; the tuple round
\* trip tells it from Encode.
EncodeShortCount(t) == <<Len(t) % 256, 0>> \o EncodeElems(t)

\* Tuple.Encode: [num_elems: 2] ([elem_len: 2] [elem_data])...
Encode(t) ==
  <<Uint16(Len(t)) % 256, Uint16(Len(t)) \div 256>> \o EncodeElems(t)

\* The loop of DecodeTuple: n elements from data[offset:], as [tuple, offset],
\* the elements and the offset after them.  The loop over n elements is run as
\* the loop over the first n / 2 followed by the loop over the rest from where
\* the first stopped.
RECURSIVE DecodeElems(_, _, _)
DecodeElems(data, offset, n) ==
  IF n = 0
  THEN [tuple |-> <<>>, offset |-> offset]
  ELSE IF n = 1
       THEN [tuple |-> <<slice(data, offset + 2, readUint16(data, offset))>>,
             offset |-> offset + 2 + readUint16(data, offset)]
       ELSE The({ The({ [tuple |-> first.tuple \o rest.tuple, offset |-> rest.offset]
                      : rest \in {DecodeElems(data, first.offset, n - n \div 2)} })
                : first \in {DecodeElems(data, offset, n \div 2)} })

\* DecodeTuple
DecodeTuple(data) == DecodeElems(data, 2, readUint16(data, 0)).tuple

\* SplitTuple: tuple[:numKeyElems] and tuple[numKeyElems:], numKeyElems cut down
\* to the tuple's length.
SplitTuple(tuple, numKeyElems) ==
  LET n == IF numKeyElems > Len(tuple) THEN Len(tuple) ELSE numKeyElems
  IN [key |-> SubSeq(tuple, 1, n), value |-> SubSeq(tuple, n + 1, Len(tuple))]

\* MergeTuple
MergeTuple(key, value) == key \o value

\* table.Create: [m, err, table] (table is a sequence: empty on error).
TableCreate(m, numKeyElems) ==
  The({ [m |-> c.m, err |-> c.err,
         table |-> IF c.err # Nil
                   THEN <<>>
                   ELSE <<[MetaPageID |-> c.tree[1].MetaPageID,
                           NumKeyElems |-> numKeyElems]>>]
      : c \in {Create(m)} })

\* SimpleTable.Insert: [m, err].
TableInsert(m, table, tuple) ==
  LET split == SplitTuple(tuple, table.NumKeyElems)
      keyBytes == Encode(split.key)
      valueBytes == Encode(split.value)
  IN Insert(m, NewBTree(table.MetaPageID), keyBytes, valueBytes)

\* SimpleTable.Scan: [m, err, it] (it is a sequence: empty on error).
TableScan(m, table) ==
  The({ [m |-> s.m, err |-> s.err,
         it |-> IF s.err # Nil
                THEN <<>>
                ELSE <<[btreeIter |-> s.it[1], numKeyElems |-> table.NumKeyElems]>>]
      : s \in {Search(m, NewBTree(table.MetaPageID), NewSearchStart)} })

\* TableIter.Next: [m, err, tuple, it] (tuple is a sequence: empty for nil).
TableIterNext(m, it) ==
  The({ [m |-> r.m, err |-> r.err,
         it |-> [it EXCEPT !.btreeIter = r.it],
         tuple |-> IF r.err # Nil \/ r.pair = <<>>
                   THEN <<>>
                   ELSE <<MergeTuple(DecodeTuple(r.pair[1].Key),
                                     DecodeTuple(r.pair[1].Value))>>]
      : r \in {IterNext(m, it.btreeIter)} })

\* iter, err := table.Scan(bufmgr), then
\* for { tuple, err := iter.Next(bufmgr); if tuple == nil { break }; append }:
\* [m, err, tuples].
RECURSIVE TableNextLoop(_, _, _)
TableNextLoop(m, it, tuples) ==
  The({ IF r.err # Nil
        THEN [m |-> r.m, err |-> r.err, tuples |-> tuples]
        ELSE IF r.tuple = <<>>
             THEN [m |-> r.m, err |-> Nil, tuples |-> tuples]
             ELSE TableNextLoop(r.m, r.it, tuples \o r.tuple)
      : r \in {TableIterNext(m, it)} })

TableScanAll(m, table) ==
  The({ IF s.err # Nil
        THEN [m |-> s.m, err |-> s.err, tuples |-> <<>>]
        ELSE TableNextLoop(s.m, s.it[1], <<>>)
      : s \in {TableScan(m, table)} })

----------------------------------------------------------------------------
(* The client: one heap file, one manager, one tree.                          *)

\* The inputs.  Key 1 is the common prefix itself, the others extend it by one
\* byte, so the keys are ordered by their index.
Pad == [j \in 1..KeyPad |-> 107]
KeyOf(i) == IF i = 1 THEN Pad ELSE Pad \o <<48 + i>>
Keys == {KeyOf(i) : i \in 1..KeyCount}
ShortValue == <<118, 49>>
LongValue == [j \in 1..LongValueLen |-> 86]
Values == {ShortValue, LongValue}

NoTree == <<>>

\* The manager's fields as one record, and their assignment.
Mach ==
  [heapFile |-> heapFile, nextPageID |-> nextPageID, frames |-> frames,
   nextVictimID |-> nextVictimID, pageTable |-> pageTable, io |-> <<>>]

Install(m) ==
  /\ heapFile' = m.heapFile
  /\ nextPageID' = m.nextPageID
  /\ frames' = m.frames
  /\ nextVictimID' = m.nextVictimID
  /\ pageTable' = m.pageTable

\* disk.Open on a new file, NewBufferPool, NewBufferPoolManager (setupTestEnv).
NewManager(file, poolSize) ==
  [heapFile |-> file, nextPageID |-> NewDiskManager(file),
   frames |-> NewBufferPool(poolSize), nextVictimID |-> 0,
   pageTable |-> [p \in {} |-> 0], io |-> <<>>]

Init ==
  /\ LET m == NewManager([p \in {} |-> ZeroPage], PoolSize)
     IN /\ heapFile = m.heapFile
        /\ nextPageID = m.nextPageID
        /\ frames = m.frames
        /\ nextVictimID = m.nextVictimID
        /\ pageTable = m.pageTable
  /\ tree = NoTree
  /\ ret = [op |-> "Open", err |-> Nil, io |-> <<>>]
  /\ inserted = <<>>
  /\ rejected = {}
  /\ calls = 0

\* tree, err := Create(bufmgr), once.
DoCreate ==
  /\ tree = NoTree
  /\ \E r \in {Create(Mach)} :
       /\ Install(r.m)
       /\ tree' = r.tree
       /\ ret' = [op |-> "Create", err |-> r.err, io |-> r.m.io]
  /\ calls' = calls + 1
  /\ UNCHANGED <<inserted, rejected>>

\* err := tree.Insert(bufmgr, key, value)
DoInsert(key, value) ==
  /\ tree # NoTree
  /\ \E r \in {Insert(Mach, tree[1], key, value)} :
       /\ Install(r.m)
       /\ ret' = [op |-> "Insert", key |-> key, err |-> r.err, io |-> r.m.io]
       /\ inserted' = IF r.err = Nil
                      THEN Append(inserted, [Key |-> key, Value |-> value])
                      ELSE inserted
       /\ rejected' = IF r.err = Nil
                      THEN rejected
                      ELSE rejected \cup {[key |-> key, err |-> r.err]}
  /\ calls' = calls + 1
  /\ UNCHANGED tree

\* buf, err := bufmgr.FetchPage(pageID)
DoFetchPage(pageID) ==
  /\ \E r \in {FetchPage(Mach, pageID)} :
       /\ Install(r.m)
       /\ ret' = [op |-> "FetchPage", pageID |-> pageID, err |-> r.err,
                  buf |-> r.buf, io |-> r.m.io]
  /\ calls' = calls + 1
  /\ UNCHANGED <<tree, inserted, rejected>>

\* err := bufmgr.Flush()
DoFlush ==
  /\ \E r \in {Flush(Mach)} :
       /\ Install(r.m)
       /\ ret' = [op |-> "Flush", err |-> r.err, io |-> r.m.io]
  /\ calls' = calls + 1
  /\ UNCHANGED <<tree, inserted, rejected>>

\* A fresh DiskManager, BufferPool and BufferPoolManager on the same file, and
\* NewBTree(metaPageID) for the tree that was created.
Reopen(m, poolSize) == NewManager(m.heapFile, poolSize)

DoReopen ==
  /\ \E m \in {Reopen(Mach, Size(Mach))} : Install(m)
  /\ tree' = IF tree = NoTree THEN NoTree ELSE <<NewBTree(tree[1].MetaPageID)>>
  /\ ret' = [op |-> "Reopen", err |-> Nil, io |-> <<>>]
  /\ calls' = calls + 1
  /\ UNCHANGED <<inserted, rejected>>

\* buf, err := bufmgr.CreatePage()
DoCreatePage ==
  /\ \E r \in {CreatePage(Mach)} :
       /\ Install(r.m)
       /\ ret' = [op |-> "CreatePage", err |-> r.err, buf |-> r.buf, io |-> r.m.io]
  /\ calls' = calls + 1
  /\ UNCHANGED <<tree, inserted, rejected>>

\* The tree's client: Create, then inserts of any key with any value.
Next ==
  /\ calls < MaxCalls
  /\ \/ DoCreate
     \/ \E key \in Keys, value \in Values : DoInsert(key, value)

Spec == Init /\ [][Next]_vars

\* The manager's client: the tree's client with one value, page fetches, Flush
\* and reopening the file.
NextPersist ==
  /\ calls < MaxPersistCalls
  /\ \/ DoCreate
     \/ \E key \in Keys : DoInsert(key, LongValue)
     \/ DoFlush
     \/ DoReopen
     \/ \E pageID \in 0..nextPageID : DoFetchPage(pageID)

SpecPersist == Init /\ [][NextPersist]_vars

\* The bulk-loading client: Create, then the keys in descending order, each with
\* any value.
NextDescending ==
  \/ DoCreate
  \/ /\ calls <= DescendingCount
     /\ \E value \in Values : DoInsert(KeyOf(DescendingCount + 1 - calls), value)

SpecDescending == Init /\ [][NextDescending]_vars

\* The sequential client: Create, then the pairs key00000 / value00000,
\* key00001 / value00001, ... in that order (fmt.Sprintf("key%05d", i) and
\* fmt.Sprintf("value%05d", i) as bytes).
ManyPair(i) ==
  LET digits == <<48 + ((i \div 10000) % 10), 48 + ((i \div 1000) % 10),
                  48 + ((i \div 100) % 10), 48 + ((i \div 10) % 10), 48 + (i % 10)>>
  IN [Key |-> <<107, 101, 121>> \o digits,
      Value |-> <<118, 97, 108, 117, 101>> \o digits]

NextMany ==
  \/ DoCreate
  \/ /\ calls <= ManyCount
     /\ DoInsert(ManyPair(calls - 1).Key, ManyPair(calls - 1).Value)

SpecMany == Init /\ [][NextMany]_vars

\* The page client: a manager over a pool of SmallPoolSize frames on a new file,
\* then page creations, page fetches, Create, Flush and reopening the file.
InitPool ==
  /\ \E m \in {NewManager([p \in {} |-> ZeroPage], SmallPoolSize)} :
       /\ heapFile = m.heapFile
       /\ nextPageID = m.nextPageID
       /\ frames = m.frames
       /\ nextVictimID = m.nextVictimID
       /\ pageTable = m.pageTable
  /\ tree = NoTree
  /\ ret = [op |-> "Open", err |-> Nil, io |-> <<>>]
  /\ inserted = <<>>
  /\ rejected = {}
  /\ calls = 0

NextPool ==
  /\ calls < MaxPoolCalls
  /\ \/ DoCreatePage
     \/ \E pageID \in 0..nextPageID : DoFetchPage(pageID)
     \/ DoCreate
     \/ DoFlush
     \/ DoReopen

SpecPool == InitPool /\ [][NextPool]_vars

\* The pinning client: the page client's small pool under a tree: Create, inserts
\* with the long value, page creations, page fetches and Flush, on one manager.
NextPins ==
  /\ calls < MaxPinCalls
  /\ \/ DoCreate
     \/ \E key \in Keys : DoInsert(key, LongValue)
     \/ DoCreatePage
     \/ \E pageID \in 0..nextPageID : DoFetchPage(pageID)
     \/ DoFlush

SpecPins == InitPool /\ [][NextPins]_vars

\* The table client: a table created with NumKeyElems 1 or more, then inserts
\* of tuples of one or two elements.  The first element is 4 bytes shorter than
\* the tree client's key and the second 4 bytes shorter than its long value, so
\* that the encoded key and value tuples have the sizes of the tree client's
\* keys and values, and leaves split after as many inserts.
TableTuples ==
  LET keyElem(i) == SubSeq(KeyOf(i), 5, Len(KeyOf(i)))
      valueElem == SubSeq(LongValue, 5, Len(LongValue))
  IN {<<keyElem(i)>> : i \in 1..KeyCount}
       \cup {<<keyElem(i), valueElem>> : i \in 1..KeyCount}

\* table, err := Create(bufmgr, numKeyElems), once.
DoTableCreate(numKeyElems) ==
  /\ tree = NoTree
  /\ \E r \in {TableCreate(Mach, numKeyElems)} :
       /\ Install(r.m)
       /\ tree' = r.table
       /\ ret' = [op |-> "TableCreate", err |-> r.err, io |-> r.m.io]
  /\ calls' = calls + 1
  /\ UNCHANGED <<inserted, rejected>>

\* err := table.Insert(bufmgr, tuple)
DoTableInsert(tuple) ==
  /\ tree # NoTree
  /\ \E r \in {TableInsert(Mach, tree[1], tuple)} :
       /\ Install(r.m)
       /\ ret' = [op |-> "TableInsert", tuple |-> tuple, err |-> r.err, io |-> r.m.io]
       /\ inserted' = IF r.err = Nil THEN Append(inserted, tuple) ELSE inserted
       /\ rejected' = IF r.err = Nil
                      THEN rejected
                      ELSE rejected \cup {[tuple |-> tuple, err |-> r.err]}
  /\ calls' = calls + 1
  /\ UNCHANGED tree

NextTable ==
  /\ calls < MaxTableCalls
  /\ \/ \E numKeyElems \in 1..MaxKeyElems : DoTableCreate(numKeyElems)
     \/ \E tuple \in TableTuples : DoTableInsert(tuple)

SpecTable == Init /\ [][NextTable]_vars

\* The codec client: byte strings of up to MaxStringLen bytes, one whose length
\* needs the high length byte, one of 65531 bytes (4 + 65531 is the largest
\* uint16) and the longest one a 16-bit length holds; tuples
\* of up to MaxElems of them, and one whose element count needs the high byte.
CodecStrings ==
  UNION {[1..n -> {0, 255}] : n \in 0..MaxStringLen}
    \cup {[j \in 1..300 |-> 120], [j \in 1..65531 |-> 122], [j \in 1..65535 |-> 121]}

CodecTuples ==
  UNION {[1..n -> CodecStrings] : n \in 0..MaxElems}
    \cup {[j \in 1..300 |-> <<j % 256>>]}

\* data := pair.ToBytes(); decoded := PairFromBytes(append(data, tail...)), once:
\* decoded is <<the pair>>, or <<>> when PairFromBytes panics.
DoPairCodec ==
  /\ ret.op = "Open"
  /\ \E key \in CodecStrings, value \in CodecStrings, tail \in {<<>>, <<1, 0, 1, 0, 9>>} :
       \E data \in {ToBytes([Key |-> key, Value |-> value])} :
         ret' = [op |-> "PairCodec", pair |-> [Key |-> key, Value |-> value],
                 tail |-> tail, size |-> Len(data),
                 pairSize |-> PairSize(Len(key), Len(value)),
                 decoded |-> IF PairFromBytesPanics(data \o tail, 0)
                             THEN <<>>
                             ELSE <<PairFromBytes(data \o tail, 0)>>,
                 err |-> Nil, io |-> <<>>]
  /\ UNCHANGED <<heapFile, nextPageID, frames, nextVictimID, pageTable, tree,
                 inserted, rejected, calls>>

\* decoded := DecodeTuple(t.Encode()), once.
DoTupleCodec ==
  /\ ret.op = "Open"
  /\ \E t \in CodecTuples :
       ret' = [op |-> "TupleCodec", tuple |-> t,
               decoded |-> DecodeTuple(Encode(t)),
               err |-> Nil, io |-> <<>>]
  /\ UNCHANGED <<heapFile, nextPageID, frames, nextVictimID, pageTable, tree,
                 inserted, rejected, calls>>

NextCodec ==
  \/ DoPairCodec
  \/ DoTupleCodec

SpecCodec == Init /\ [][NextCodec]_vars

\* The sweep client: a pool of EvictFrames frames in any state of usage counts
\* and pins, on which BufferPool.Evict is called, one loop iteration per
\* step.  ret holds the position of the call: consecutivePinned,
\* the number of iterations so far, and the result once the call returned.
InitEvict ==
  /\ \E m \in {NewManager([p \in {} |-> ZeroPage], EvictFrames)} :
       /\ heapFile = m.heapFile
       /\ nextPageID = m.nextPageID
       /\ pageTable = m.pageTable
       /\ frames \in [DOMAIN m.frames ->
                        [UsageCount : 0..MaxUsage, PageID : {0}, Page : {ZeroPage},
                         IsDirty : {FALSE}, refCount : 0..1, isValid : {FALSE}]]
       /\ nextVictimID \in DOMAIN m.frames
  /\ tree = NoTree
  /\ ret = [op |-> "NewBufferPool", pc |-> "done", consecutivePinned |-> 0,
            steps |-> 0, bufferID |-> 0, err |-> Nil, io |-> <<>>]
  /\ inserted = <<>>
  /\ rejected = {}
  /\ calls = 0

\* bufferID, err := pool.Evict(): the entry, consecutivePinned := 0.
DoEvictCall ==
  /\ ret.pc = "done"
  /\ ret.op = "NewBufferPool"
  /\ ret' = [op |-> "Evict", pc |-> "loop", consecutivePinned |-> 0,
             steps |-> 0, bufferID |-> 0, err |-> Nil, io |-> <<>>]
  /\ calls' = calls + 1
  /\ UNCHANGED <<heapFile, nextPageID, frames, nextVictimID, pageTable, tree,
                 inserted, rejected>>

\* One iteration of the loop of Evict.
DoEvictStep ==
  /\ ret.op = "Evict"
  /\ ret.pc = "loop"
  /\ \E s \in {EvictStep(Mach, ret.consecutivePinned)} :
       /\ Install(s.m)
       /\ ret' = [op |-> "Evict", pc |-> IF s.done THEN "done" ELSE "loop",
                  consecutivePinned |-> s.consecutivePinned,
                  steps |-> ret.steps + 1,
                  bufferID |-> s.bufferID, err |-> s.err, io |-> <<>>]
  /\ UNCHANGED <<tree, inserted, rejected, calls>>

NextEvict ==
  \/ DoEvictCall
  \/ DoEvictStep

SpecEvict == InitEvict /\ [][NextEvict]_vars

\* The sweep client on a pool of any size from 1 to EvictFrames.  A call of Evict
\* that has been entered runs its loop on: the iterations are weakly fair.
InitEvictSizes ==
  /\ \E poolSize \in 1..EvictFrames :
     \E m \in {NewManager([p \in {} |-> ZeroPage], poolSize)} :
       /\ heapFile = m.heapFile
       /\ nextPageID = m.nextPageID
       /\ pageTable = m.pageTable
       /\ frames \in [DOMAIN m.frames ->
                        [UsageCount : 0..MaxUsage, PageID : {0}, Page : {ZeroPage},
                         IsDirty : {FALSE}, refCount : 0..1, isValid : {FALSE}]]
       /\ nextVictimID \in DOMAIN m.frames
  /\ tree = NoTree
  /\ ret = [op |-> "NewBufferPool", pc |-> "done", consecutivePinned |-> 0,
            steps |-> 0, bufferID |-> 0, err |-> Nil, io |-> <<>>]
  /\ inserted = <<>>
  /\ rejected = {}
  /\ calls = 0

SpecEvictFair == InitEvictSizes /\ [][NextEvict]_vars /\ WF_vars(DoEvictStep)

\* The branch client: Branch.Initialize on a fresh branch page, then Branch.Insert
\* of separators of one length, one call at a time or the first NearMaxKeys or
\* NearFull of them in a loop, until Insert reports the page full, then
\* Branch.SplitInsert of the refused separator into a fresh sibling (a call
\* whose KeyAt panics leaves both pages as they were). The separators are
\* distinct and arrive in ascending order (each one inserted after the last
\* child, mode "back") or, for the two longer lengths, in descending order (each
\* one inserted after child 0, mode "front"); the children are numbered in order
\* of arrival.
NodeKey(mode, keyLen, n) ==
  LET v == IF mode = "back" THEN n
           ELSE IF mode = "front" THEN 65535 - n
           ELSE (n * 40503) % 65536
  IN [j \in 1..(keyLen - 2) |-> 107] \o <<v \div 256, v % 256>>

DoBranchInitialize ==
  /\ ret.op = "Open"
  /\ \E run \in {<<"back", ShortKeyLen>>, <<"back", CapacityKeyLen>>,
                  <<"back", CapacityKeyLen + 1>>, <<"front", CapacityKeyLen>>,
                  <<"front", CapacityKeyLen + 1>>} :
       ret' = [op |-> "BranchInitialize", mode |-> run[1], keyLen |-> run[2],
               count |-> 0, ok |-> TRUE,
               page |-> BranchInitialize(WriteHeader(ZeroPage, NodeTypeBranch),
                                         NodeKey(run[1], run[2], 0), 1, 2),
               err |-> Nil, io |-> <<>>]
  /\ UNCHANGED <<heapFile, nextPageID, frames, nextVictimID, pageTable, tree,
                 inserted, rejected, calls>>

\* for n := 1; n <= fill; n++ { branch.Insert(childIdx, key n, child n + 2) },
\* entered only when every call of the loop succeeds; the iterations from+1, ...,
\* to in that order, taken by halves.
DoBranchFill ==
  /\ ret.op = "BranchInitialize"
  /\ LET RECURSIVE Fill(_, _, _)
         Fill(page, from, to) ==
           IF from >= to
           THEN [ok |-> TRUE, page |-> page]
           ELSE IF to = from + 1
           THEN BranchInsert(page, IF ret.mode = "back" THEN NumKeys(page) ELSE 0,
                             NodeKey(ret.mode, ret.keyLen, to), to + 2)
           ELSE The({ IF first.ok THEN Fill(first.page, (from + to) \div 2, to)
                                  ELSE first
                    : first \in {Fill(page, from, (from + to) \div 2)} })
     IN \E fill \in {NearMaxKeys, NearFull} : \E r \in {Fill(ret.page, 0, fill)} :
          /\ r.ok
          /\ ret' = [op |-> "BranchFill", mode |-> ret.mode, keyLen |-> ret.keyLen,
                     count |-> fill, ok |-> TRUE, page |-> r.page,
                     err |-> Nil, io |-> <<>>]
  /\ UNCHANGED <<heapFile, nextPageID, frames, nextVictimID, pageTable, tree,
                 inserted, rejected, calls>>

DoBranchInsert ==
  /\ ret.op \in {"BranchInitialize", "BranchFill", "BranchInsert"}
  /\ ret.ok
  /\ \E childIdx \in {IF ret.mode = "back" THEN NumKeys(ret.page) ELSE 0} :
     \E key \in {NodeKey(ret.mode, ret.keyLen, ret.count + 1)} :
     \E r \in {BranchInsert(ret.page, childIdx, key, ret.count + 3)} :
       ret' = [op |-> "BranchInsert", mode |-> ret.mode, keyLen |-> ret.keyLen,
               count |-> ret.count + 1, childIdx |-> childIdx, key |-> key,
               child |-> ret.count + 3, ok |-> r.ok, page |-> r.page,
               err |-> Nil, io |-> <<>>]
  /\ UNCHANGED <<heapFile, nextPageID, frames, nextVictimID, pageTable, tree,
                 inserted, rejected, calls>>

DoBranchSplitInsert ==
  /\ ret.op = "BranchInsert"
  /\ ~ret.ok
  /\ IF \E i \in 0..(NumKeys(ret.page) - 1) : KeyAtPanics(ret.page, i)
     THEN ret' = [op |-> "BranchSplitInsert", panic |-> TRUE, key |-> ret.key,
                  child |-> ret.child, before |-> ret.page, page |-> ret.page,
                  err |-> Nil, io |-> <<>>]
     ELSE \E r \in {BranchSplitInsert(ret.page, WriteHeader(ZeroPage, NodeTypeBranch),
                                       ret.key, ret.child)} :
            ret' = [op |-> "BranchSplitInsert", panic |-> FALSE, key |-> ret.key,
                    child |-> ret.child, before |-> ret.page, page |-> r.page,
                    newPage |-> r.newPage, overflowKey |-> r.key,
                    err |-> Nil, io |-> <<>>]
  /\ UNCHANGED <<heapFile, nextPageID, frames, nextVictimID, pageTable, tree,
                 inserted, rejected, calls>>

\* The leaf client: Leaf.Initialize on a fresh leaf page, then, as insertInternal
\* does, SearchSlotID and Leaf.Insert at the slot it returns, of pairs with
\* distinct short keys and values of one length, until Insert reports the leaf
\* full.  The keys arrive in ascending order ("back"), in descending order
\* ("front") or scattered ("mixed").
DoLeafInitialize ==
  /\ ret.op = "Open"
  /\ \E run \in {"back", "front", "mixed"} \X {ExactValueLen, WideValueLen} :
       ret' = [op |-> "LeafInitialize", mode |-> run[1], valueLen |-> run[2],
               count |-> 0, ok |-> TRUE,
               page |-> LeafInitialize(WriteHeader(ZeroPage, NodeTypeLeaf)),
               err |-> Nil, io |-> <<>>]
  /\ UNCHANGED <<heapFile, nextPageID, frames, nextVictimID, pageTable, tree,
                 inserted, rejected, calls>>

DoLeafInsert ==
  /\ ret.op \in {"LeafInitialize", "LeafInsert"}
  /\ ret.ok
  /\ \E key \in {NodeKey(ret.mode, ShortKeyLen, ret.count)} :
     \E value \in {[j \in 1..ret.valueLen |-> 86]} :
     \E pos \in {SearchSlotID(ret.page, key)} :
     \E r \in {LeafInsert(ret.page, pos[1], key, value)} :
       /\ ~pos[2]
       /\ ret' = [op |-> "LeafInsert", mode |-> ret.mode, valueLen |-> ret.valueLen,
                  count |-> ret.count + 1, slotID |-> pos[1], key |-> key,
                  value |-> value, ok |-> r.ok, before |-> ret.page,
                  page |-> r.page, err |-> Nil, io |-> <<>>]
  /\ UNCHANGED <<heapFile, nextPageID, frames, nextVictimID, pageTable, tree,
                 inserted, rejected, calls>>

NextNode ==
  \/ DoBranchInitialize
  \/ DoBranchFill
  \/ DoBranchInsert
  \/ DoBranchSplitInsert
  \/ DoLeafInitialize
  \/ DoLeafInsert

SpecNode == Init /\ [][NextNode]_vars

----------------------------------------------------------------------------
(* What a client observes of the tree in the current state.                   *)

\* The keys of the pairs inserted so far, and the conditions of the contract:
\* every Insert returned nil, and no key was inserted twice.
InsertedKeys == {inserted[i].Key : i \in 1..Len(inserted)}
InsertedPairs == {inserted[i] : i \in 1..Len(inserted)}
DistinctKeys == Cardinality(InsertedKeys) = Len(inserted)
AllInsertsSucceeded == tree # NoTree /\ rejected = {} /\ DistinctKeys

\* for { pair, _ := iter.Next(); if pair == nil { break } } from Search(Start)
\* and from Search(Key(key)).
ScanAll == ScanFrom(Mach, tree[1], NewSearchStart)
ScanKey(key) == ScanFrom(Mach, tree[1], NewSearchKey(key))

\* bytes.Compare(pairs[i].Key, pairs[i+1].Key) < 0 along a sequence of pairs.
Ascending(pairs) ==
  \A i \in 1..(Len(pairs) - 1) : Compare(pairs[i].Key, pairs[i + 1].Key) < 0

\* The pairs of a sequence, as a set.
PairsOf(pairs) == {pairs[i] : i \in 1..Len(pairs)}

\* The latest contents of a page: the cached bytes when the page is in the page
\* table, otherwise the bytes on disk.
CurrentPage(pageID) ==
  IF pageID \in DOMAIN pageTable
  THEN frames[pageTable[pageID]].Page
  ELSE heapFile[pageID]

\* The root page id the meta page holds.
TreeRoot == RootPageID(CurrentPage(tree[1].MetaPageID))

\* The leaves below a node, left to right by child index.
RECURSIVE SubtreeLeaves(_)
RECURSIVE ChildrenLeaves(_, _)
SubtreeLeaves(pageID) ==
  IF NodeType(CurrentPage(pageID)) = NodeTypeLeaf
  THEN <<pageID>>
  ELSE ChildrenLeaves(CurrentPage(pageID), 0)
ChildrenLeaves(page, idx) ==
  IF idx >= NumChildren(page)
  THEN <<>>
  ELSE SubtreeLeaves(ChildAt(page, idx)) \o ChildrenLeaves(page, idx + 1)

\* The branch nodes at and below a node.
RECURSIVE SubtreeBranches(_)
SubtreeBranches(pageID) ==
  IF NodeType(CurrentPage(pageID)) = NodeTypeLeaf
  THEN {}
  ELSE {pageID} \cup
       UNION {SubtreeBranches(ChildAt(CurrentPage(pageID), idx)) :
                idx \in 0..(NumChildren(CurrentPage(pageID)) - 1)}

\* The keys a leaf stores, in slot order, and the keys stored below a node.
LeafKeys(pageID) ==
  [i \in 1..NumPairs(CurrentPage(pageID)) |-> PairAt(CurrentPage(pageID), i - 1).Key]
SubtreeKeys(pageID) ==
  LET leaves == SubtreeLeaves(pageID)
  IN UNION {{LeafKeys(leaves[j])[i] : i \in 1..Len(LeafKeys(leaves[j]))} :
              j \in 1..Len(leaves)}

\* The leaves met by following next_page_id (prev_page_id) from a leaf until
\* the sentinel, at most fuel of them.
RECURSIVE NextChain(_, _)
NextChain(pageID, fuel) ==
  IF pageID = InvalidPageID \/ fuel = 0
  THEN <<>>
  ELSE <<pageID>> \o NextChain(NextPageID(CurrentPage(pageID)), fuel - 1)
RECURSIVE PrevChain(_, _)
PrevChain(pageID, fuel) ==
  IF pageID = InvalidPageID \/ fuel = 0
  THEN <<>>
  ELSE <<pageID>> \o PrevChain(PrevPageID(CurrentPage(pageID)), fuel - 1)

\* A sequence in reverse, and the keys of a sequence of leaves in visiting order.
Reverse(seq) == [i \in 1..Len(seq) |-> seq[Len(seq) + 1 - i]]
RECURSIVE ChainKeys(_)
ChainKeys(leaves) ==
  IF leaves = <<>> THEN <<>> ELSE LeafKeys(Head(leaves)) \o ChainKeys(Tail(leaves))
AscendingKeys(keys) ==
  \A i \in 1..(Len(keys) - 1) : Compare(keys[i], keys[i + 1]) < 0

\* Keys for range scans: the inserted keys, one below all of them, one between
\* the first two and one above all of them.
RangeKeys == Keys \cup {<<0>>, Pad \o <<48>>, Pad \o <<255>>}

----------------------------------------------------------------------------
\* The scanning client: the tree's client, which after any of its calls opens an
\* iterator with Search (from the start or from a key) and calls Next on it up
\* to MaxNexts times, with no insert in between.  ret holds the iterator: it is
\* the Iter after the call, from the Iter before it, nexts the number of Next
\* calls on it, and nilSeen whether an earlier Next on it returned nil.
DoSearch(search) ==
  /\ tree # NoTree
  /\ ret.op \in {"Create", "Insert"}
  /\ \E r \in {Search(Mach, tree[1], search)} :
       /\ Install(r.m)
       /\ ret' = [op |-> "Search", search |-> search, err |-> r.err,
                  it |-> r.it, from |-> <<>>, pair |-> <<>>, nexts |-> 0,
                  nilSeen |-> FALSE, io |-> r.m.io]
  /\ UNCHANGED <<tree, inserted, rejected, calls>>

\* pair, err := iter.Next(bufmgr)
DoIterNext ==
  /\ ret.op \in {"Search", "Next"}
  /\ ret.it # <<>>
  /\ ret.nexts < MaxNexts
  /\ \E r \in {IterNext(Mach, ret.it[1])} :
       /\ Install(r.m)
       /\ ret' = [op |-> "Next", search |-> ret.search, err |-> r.err,
                  it |-> <<r.it>>, from |-> ret.it, pair |-> r.pair,
                  nexts |-> ret.nexts + 1,
                  nilSeen |-> ret.nilSeen \/ (ret.op = "Next" /\ ret.pair = <<>>),
                  io |-> r.m.io]
  /\ UNCHANGED <<tree, inserted, rejected, calls>>

NextIter ==
  \/ /\ calls < MaxCalls
     /\ ret.op \in {"Open", "Create", "Insert"}
     /\ \/ DoCreate
        \/ \E key \in Keys, value \in Values : DoInsert(key, value)
  \/ \E search \in {NewSearchStart} \cup {NewSearchKey(key) : key \in RangeKeys} :
       DoSearch(search)
  \/ DoIterNext

SpecIter == Init /\ [][NextIter]_vars

----------------------------------------------------------------------------
(* The contract of the tree.                                                  *)

\* C1 (Completeness): after inserts of pairwise distinct keys that all returned
\* nil, Search(NewSearchKey(k)) followed by one Next returns the pair (k, v) for
\* every inserted pair (k, v), separator keys included.
C1_Completeness ==
  AllInsertsSucceeded =>
    \A i \in 1..Len(inserted) :
      LET r == SearchOne(Mach, tree[1], inserted[i].Key)
      IN r.err = Nil /\ r.pair = <<inserted[i]>>

\* C2 (Ordering): after inserts of pairwise distinct keys that all returned nil,
\* the scan from Start yields keys in strictly ascending order.
C2_Ordering ==
  AllInsertsSucceeded => ScanAll.err = Nil /\ Ascending(ScanAll.pairs)

\* C3 (Full-scan completeness): after n successful inserts of pairwise distinct
\* keys the scan from Start yields exactly n pairs, every inserted pair once.
C3_FullScan ==
  AllInsertsSucceeded =>
    /\ ScanAll.err = Nil
    /\ Len(ScanAll.pairs) = Len(inserted)
    /\ PairsOf(ScanAll.pairs) = InsertedPairs

\* C4 (Range): for any key k the scan from Key(k) yields exactly the inserted
\* pairs whose key is >= k, each once, in ascending key order.
C4_Range ==
  AllInsertsSucceeded =>
    \A k \in RangeKeys :
      LET scan == ScanKey(k)
          expected == {p \in InsertedPairs : Compare(p.Key, k) >= 0}
      IN /\ scan.err = Nil
         /\ Ascending(scan.pairs)
         /\ Len(scan.pairs) = Cardinality(expected)
         /\ PairsOf(scan.pairs) = expected

\* C5 (Duplicate rejection): an Insert of a key that is already stored returns
\* ErrDuplicateKey and leaves the scan from Start as it was.
C5_DuplicateRejected ==
  tree # NoTree =>
    \A key \in InsertedKeys, value \in Values :
      LET r == Insert(Mach, tree[1], key, value)
      IN /\ r.err = ErrDuplicateKey
         /\ ScanFrom(r.m, tree[1], NewSearchStart).pairs = ScanAll.pairs

\* C6 (Persistence): after a successful Flush every page created is on disk
\* with its latest in-memory contents, a fresh manager on the same file with
\* NewBTree(meta page id) scans the same pairs, and the reopened disk manager's
\* next page id is the number of pages created.
C6_Persistence ==
  (ret.op = "Flush" /\ ret.err = Nil) =>
    /\ \A p \in 0..(nextPageID - 1) :
         p \in DOMAIN heapFile /\ heapFile[p] = CurrentPage(p)
    /\ Reopen(Mach, PoolSize).nextPageID = nextPageID
    /\ tree # NoTree =>
         LET reopened == ScanFrom(Reopen(Mach, PoolSize),
                                  NewBTree(tree[1].MetaPageID), NewSearchStart)
         IN reopened.err = ScanAll.err /\ reopened.pairs = ScanAll.pairs

\* A flush that followed a leaf split and a branch split.
C6_Witness ==
  /\ ret.op = "Flush" /\ ret.err = Nil
  /\ Len(inserted) = 3
  /\ nextPageID = 7
  /\ Len(ret.io) = 8

\* C7 (Leaf chain): following next_page_id from the leaf with the smallest keys
\* visits every leaf once in ascending key order, following prev_page_id from
\* the last leaf visits them in reverse, and A.next = B iff B.prev = A.
C7_LeafChain ==
  AllInsertsSucceeded =>
    LET leaves == SubtreeLeaves(TreeRoot)
        ids == {leaves[i] : i \in 1..Len(leaves)}
    IN /\ \E first \in ids :
            LET chain == NextChain(first, Len(leaves) + 1)
            IN /\ Len(chain) = Len(leaves)
               /\ {chain[i] : i \in 1..Len(chain)} = ids
               /\ AscendingKeys(ChainKeys(chain))
               /\ PrevChain(chain[Len(chain)], Len(leaves) + 1) = Reverse(chain)
       /\ \A a \in ids, b \in ids :
            (NextPageID(CurrentPage(a)) = b) <=> (PrevPageID(CurrentPage(b)) = a)

\* C8 (Branch separator law): in every branch node with n children the n - 1
\* keys are ascending, keys[i] is greater than every key below children[i] and
\* at most every key below children[i+1].
C8_SeparatorLaw ==
  AllInsertsSucceeded =>
    \A b \in SubtreeBranches(TreeRoot) :
      LET page == CurrentPage(b)
          n == NumChildren(page)
      IN /\ NumKeys(page) = n - 1
         /\ \A i \in 0..(n - 3) : Compare(KeyAt(page, i), KeyAt(page, i + 1)) < 0
         /\ \A i \in 0..(n - 2) :
              /\ \A k \in SubtreeKeys(ChildAt(page, i)) :
                   Compare(k, KeyAt(page, i)) < 0
              /\ \A k \in SubtreeKeys(ChildAt(page, i + 1)) :
                   Compare(KeyAt(page, i), k) <= 0

\* C9 (Create): on a new heap file Create returns the handle with MetaPageID 0,
\* allocates pages 0 (meta) and 1 (root), writes 1 into the meta page, makes the
\* root an empty leaf without neighbours, marks both buffers dirty, and a scan
\* from Start yields nil on the first Next.
C9_Create ==
  ret.op = "Create" =>
    /\ ret.err = Nil
    /\ tree = <<[MetaPageID |-> 0]>>
    /\ nextPageID = 2
    /\ DOMAIN pageTable = {0, 1}
    /\ RootPageID(CurrentPage(0)) = 1
    /\ NodeType(CurrentPage(1)) = NodeTypeLeaf
    /\ NumPairs(CurrentPage(1)) = 0
    /\ PrevPageID(CurrentPage(1)) = InvalidPageID
    /\ NextPageID(CurrentPage(1)) = InvalidPageID
    /\ frames[pageTable[0]].IsDirty
    /\ frames[pageTable[1]].IsDirty
    /\ ScanAll.err = Nil
    /\ ScanAll.pairs = <<>>

\* Create has returned.
C9_Witness == ret.op = "Create" /\ ret.err = Nil /\ calls = 1 /\ heapFile = <<>>

\* C10 (FetchPage): a FetchPage(p) that returns nil returns the buffer of page p
\* holding the latest contents of p; on a hit usage_count and ref_count grow by
\* one, there is no disk I/O, and the buffer is the one the page table names, so
\* a second call returns it again.
C10_FetchPage ==
  [][(ret'.op = "FetchPage" /\ ret'.err = Nil) =>
       LET p == ret'.pageID
           b == ret'.buf
       IN /\ frames'[b].PageID = p
          /\ frames'[b].Page = CurrentPage(p)
          /\ p \in DOMAIN pageTable'
          /\ pageTable'[p] = b
          /\ p \in DOMAIN pageTable =>
               /\ b = pageTable[p]
               /\ frames'[b].UsageCount = frames[b].UsageCount + 1
               /\ frames'[b].refCount = frames[b].refCount + 1
               /\ ret'.io = <<>>
               /\ heapFile' = heapFile]_vars

\* A hit on a page with unflushed modifications.
C10_Witness ==
  /\ ret.op = "FetchPage" /\ ret.err = Nil
  /\ ret.io = <<>>
  /\ frames[ret.buf].IsDirty
  /\ frames[ret.buf].refCount >= 2
  /\ inserted # <<>>

\* C11 (CreatePage): a CreatePage that returns nil returns a buffer with the page
\* id AllocatePage gave, which no page of this manager or of the file has yet; the
\* page is all zero, the buffer dirty, valid and referenced once, the frame's
\* usage count is 1 and the page table maps the id to the frame; nothing is read
\* from disk.  A CreatePage that fails returns Evict's error and takes no page id.
C11_CreatePage ==
  [][(ret'.op = "CreatePage") =>
       IF ret'.err = Nil
       THEN LET b == ret'.buf
                p == frames'[b].PageID
            IN /\ p = nextPageID
               /\ nextPageID' = nextPageID + 1
               /\ \A q \in (DOMAIN pageTable) \cup (DOMAIN heapFile) : q < p
               /\ frames'[b] = [UsageCount |-> 1, PageID |-> p, Page |-> ZeroPage,
                                IsDirty |-> TRUE, refCount |-> 1, isValid |-> TRUE]
               /\ p \in DOMAIN pageTable' /\ pageTable'[p] = b
               /\ \A i \in 1..Len(ret'.io) : ret'.io[i][1] # "read"
       ELSE /\ ret'.err = ErrNoFreeBuffer
            /\ Evict(Mach).err = ErrNoFreeBuffer
            /\ nextPageID' = nextPageID
            /\ pageTable' = pageTable]_vars

\* A CreatePage that returned the third page of the file, after Create.
C11_Witness ==
  /\ ret.op = "CreatePage" /\ ret.err = Nil
  /\ tree # NoTree
  /\ frames[ret.buf].PageID = 2

\* C12 (Flush): Flush returns nil after one write per page-table entry, dirty or
\* not, followed by a sync; afterwards no resident buffer is dirty and the disk
\* bytes of every resident page are its cached bytes; the page table and every
\* frame's page, page id, reference count and usage count are as before.
C12_Flush ==
  [][(ret'.op = "Flush") =>
       /\ ret'.err = Nil
       /\ Len(ret'.io) = Cardinality(DOMAIN pageTable) + 1
       /\ ret'.io[Len(ret'.io)] = <<"sync">>
       /\ \A i \in 1..(Len(ret'.io) - 1) : ret'.io[i][1] = "write"
       /\ {ret'.io[i][2] : i \in 1..(Len(ret'.io) - 1)} = DOMAIN pageTable
       /\ pageTable' = pageTable
       /\ \A p \in DOMAIN pageTable :
            /\ p \in DOMAIN heapFile'
            /\ heapFile'[p] = frames[pageTable[p]].Page
            /\ ~frames'[pageTable[p]].IsDirty
       /\ \A b \in DOMAIN frames :
            frames'[b] = [frames[b] EXCEPT
                            !.IsDirty = IF \E p \in DOMAIN pageTable : pageTable[p] = b
                                        THEN FALSE ELSE @]
       /\ nextPageID' = nextPageID
       /\ nextVictimID' = nextVictimID]_vars

\* A Flush of the tree's two pages and a third page.
C12_Witness ==
  /\ ret.op = "Flush" /\ ret.err = Nil
  /\ Len(ret.io) = 4
  /\ tree # NoTree
  /\ DOMAIN heapFile = {0, 1, 2}
  /\ heapFile[0] # ZeroPage

\* C13 (clock-sweep rule): an iteration of Evict that returns a frame index
\* returns the cursor's frame, whose UsageCount is 0, and leaves the cursor on
\* it; an iteration that does not return decrements the UsageCount of a frame
\* with refCount 0 by one, leaves a frame with refCount > 0 as it is, changes no
\* other frame, and moves the cursor by one modulo the pool size.
C13_ClockSweep ==
  [][(ret.op = "Evict" /\ ret.pc = "loop") =>
       LET id == nextVictimID
       IN IF ret'.pc = "done"
          THEN (ret'.err = Nil) =>
                 /\ ret'.bufferID = id
                 /\ frames'[ret'.bufferID].UsageCount = 0
                 /\ nextVictimID' = ret'.bufferID
                 /\ frames' = frames
          ELSE /\ frames[id].UsageCount > 0
               /\ (frames[id].refCount = 0) =>
                    frames'[id] = [frames[id] EXCEPT !.UsageCount = @ - 1]
               /\ (frames[id].refCount > 0) => frames'[id] = frames[id]
               /\ \A b \in (DOMAIN frames) \ {id} : frames'[b] = frames[b]
               /\ nextVictimID' = (id + 1) % Cardinality(DOMAIN frames)]_vars

\* An Evict that returned a victim after more iterations than the pool has
\* frames (so it decremented usage counts) and passed a pinned frame.
C13_Witness ==
  /\ ret.op = "Evict" /\ ret.pc = "done" /\ ret.err = Nil
  /\ ret.steps > EvictFrames
  /\ \E b \in DOMAIN frames : frames[b].refCount > 0 /\ frames[b].UsageCount = MaxUsage
  /\ frames[ret.bufferID].refCount = 0

\* C14 (pool exhaustion): when every frame has refCount > 0, Evict returns
\* ErrNoFreeBuffer with the cursor Size - 1 frames further (Size pinned frames
\* inspected) and every frame as it was, and a CreatePage or a FetchPage of a
\* page that is not resident returns ErrNoFreeBuffer and leaves the page table,
\* the frames and the page id counter unchanged.
C14_PoolExhaustion ==
  [][(\A b \in DOMAIN frames : frames[b].refCount > 0) =>
       /\ \E e \in {Evict(Mach)} :
            /\ e.err = ErrNoFreeBuffer
            /\ e.m.frames = frames
            /\ e.m.nextVictimID = (nextVictimID + Size(Mach) - 1) % Size(Mach)
       /\ (\/ ret'.op = "CreatePage"
            \/ (ret'.op = "FetchPage" /\ ret'.pageID \notin DOMAIN pageTable)) =>
            /\ ret'.err = ErrNoFreeBuffer
            /\ pageTable' = pageTable
            /\ frames' = frames
            /\ nextPageID' = nextPageID
            /\ heapFile' = heapFile
            /\ nextVictimID' = (nextVictimID + Size(Mach) - 1) % Size(Mach)]_vars

\* A FetchPage of a page on the file but not resident that failed on a pool
\* whose frames are all pinned.
C14_Witness ==
  /\ ret.op = "FetchPage" /\ ret.err = ErrNoFreeBuffer
  /\ ret.pageID \in DOMAIN heapFile
  /\ ret.pageID \notin DOMAIN pageTable
  /\ \A b \in DOMAIN frames : frames[b].refCount > 0

C17_PairRoundTrip ==
  (ret.op = "PairCodec") =>
    /\ ret.decoded = <<ret.pair>>
    /\ ret.size = 4 + Len(ret.pair.Key) + Len(ret.pair.Value)
    /\ ret.pairSize = ret.size

\* C18 (tuple codec round trip): DecodeTuple(t.Encode()) is t, element for
\* element, for tuples of byte strings shorter than 2^16 bytes, the empty tuple
\* and empty elements included.
C18_TupleRoundTrip ==
  (ret.op = "TupleCodec") =>
    /\ Len(ret.decoded) = Len(ret.tuple)
    /\ \A i \in 1..Len(ret.tuple) : ret.decoded[i] = ret.tuple[i]

\* A tuple of an empty element and the longest element, decoded.
C18_Witness ==
  /\ ret.op = "TupleCodec"
  /\ Len(ret.tuple) = 2
  /\ ret.tuple[1] = <<>>
  /\ Len(ret.tuple[2]) = 65535
  /\ ret.decoded = ret.tuple

\* C19 (table layer): SplitTuple cuts a tuple at NumKeyElems (the whole tuple
\* is the key and the value is empty when NumKeyElems exceeds its length) and
\* MergeTuple of the two parts is the tuple; the tree holds the pairs
\* (Encode(key part), Encode(value part)) of inserted tuples, and the table scan
\* returns MergeTuple of each decoded pair; every tuple whose insert succeeded
\* is returned by the scan, once and as it was inserted; and an insert of a
\* tuple with the key part of an inserted tuple returns ErrDuplicateKey.
C19_Table ==
  (tree # NoTree) =>
    LET n == tree[1].NumKeyElems
        rows == TableScanAll(Mach, tree[1])
        stored == ScanAll
        keyPart(t) == SplitTuple(t, n).key
    IN /\ \A t \in TableTuples, k \in 0..(MaxKeyElems + 1) :
            /\ MergeTuple(SplitTuple(t, k).key, SplitTuple(t, k).value) = t
            /\ Len(SplitTuple(t, k).key) = IF k > Len(t) THEN Len(t) ELSE k
            /\ (k > Len(t)) => SplitTuple(t, k) = [key |-> t, value |-> <<>>]
       /\ rows.err = Nil /\ stored.err = Nil
       /\ \A i \in 1..Len(stored.pairs) :
            \E j \in 1..Len(inserted) :
              stored.pairs[i] = [Key |-> Encode(SplitTuple(inserted[j], n).key),
                                 Value |-> Encode(SplitTuple(inserted[j], n).value)]
       /\ Len(rows.tuples) = Len(stored.pairs)
       /\ \A i \in 1..Len(rows.tuples) :
            rows.tuples[i] = MergeTuple(DecodeTuple(stored.pairs[i].Key),
                                        DecodeTuple(stored.pairs[i].Value))
       /\ \A j \in 1..Len(inserted) :
            Cardinality({i \in 1..Len(rows.tuples) : rows.tuples[i] = inserted[j]}) = 1
       /\ Len(rows.tuples) = Len(inserted)
       /\ \A i, j \in 1..Len(inserted) :
            (i < j) => keyPart(inserted[i]) # keyPart(inserted[j])
       /\ \A r \in rejected :
            /\ r.err = ErrDuplicateKey
            /\ \E j \in 1..Len(inserted) : keyPart(inserted[j]) = keyPart(r.tuple)

\* C20 (root replacement), as the claim states it: when the recursive insert
\* on the root returns an overflow, Insert creates a new branch page with the one
\* separator overflow.key, child 0 = the old root page id and child 1 =
\* overflow.childPageID, points the meta page at it and marks the meta and the
\* new root buffers dirty; without an overflow the root pointer is unchanged.
C20_RootReplacementAsStated ==
  [][(ret'.op = "Insert" /\ ret'.err = Nil) =>
       LET meta == tree[1].MetaPageID
           oldRoot == RootPageID(CurrentPage(meta))
           key == ret'.key
           value == inserted'[Len(inserted')].Value
           newRootID == RootPageID(frames'[pageTable'[meta]].Page)
       IN \E fm \in {FetchPage(Mach, meta)} :
          \E fr \in {FetchPage(fm.m, oldRoot)} :
          \E r \in {insertInternal(fr.m, fr.buf, key, value)} :
            IF r.overflow # <<>>
            THEN /\ newRootID = nextPageID' - 1
                 /\ newRootID >= nextPageID
                 /\ NodeType(frames'[pageTable'[newRootID]].Page) = NodeTypeBranch
                 /\ NumChildren(frames'[pageTable'[newRootID]].Page) = 2
                 /\ KeyAt(frames'[pageTable'[newRootID]].Page, 0) = r.overflow[1].key
                 /\ ChildAt(frames'[pageTable'[newRootID]].Page, 0) = oldRoot
                 /\ ChildAt(frames'[pageTable'[newRootID]].Page, 1) = r.overflow[1].childPageID
                 /\ frames'[pageTable'[meta]].IsDirty
                 /\ frames'[pageTable'[newRootID]].IsDirty
            ELSE newRootID = oldRoot]_vars

\* C20 (root replacement), amended: as above, with child 0 = overflow.childPageID
\* (the page that holds the lower keys) and child 1 = the old root page id.
C20_RootReplacement ==
  [][(ret'.op = "Insert" /\ ret'.err = Nil) =>
       LET meta == tree[1].MetaPageID
           oldRoot == RootPageID(CurrentPage(meta))
           key == ret'.key
           value == inserted'[Len(inserted')].Value
           newRootID == RootPageID(frames'[pageTable'[meta]].Page)
       IN \E fm \in {FetchPage(Mach, meta)} :
          \E fr \in {FetchPage(fm.m, oldRoot)} :
          \E r \in {insertInternal(fr.m, fr.buf, key, value)} :
            IF r.overflow # <<>>
            THEN /\ newRootID = nextPageID' - 1
                 /\ newRootID >= nextPageID
                 /\ NodeType(frames'[pageTable'[newRootID]].Page) = NodeTypeBranch
                 /\ NumChildren(frames'[pageTable'[newRootID]].Page) = 2
                 /\ KeyAt(frames'[pageTable'[newRootID]].Page, 0) = r.overflow[1].key
                 /\ ChildAt(frames'[pageTable'[newRootID]].Page, 0) = r.overflow[1].childPageID
                 /\ ChildAt(frames'[pageTable'[newRootID]].Page, 1) = oldRoot
                 /\ frames'[pageTable'[meta]].IsDirty
                 /\ frames'[pageTable'[newRootID]].IsDirty
            ELSE newRootID = oldRoot]_vars

\* The second insert has split the root leaf and Insert has made a new root.
C20_Witness ==
  /\ ret.op = "Insert" /\ ret.err = Nil
  /\ calls = 3 /\ Len(inserted) = 2
  /\ NodeType(CurrentPage(TreeRoot)) = NodeTypeBranch
  /\ TreeRoot = nextPageID - 1
  /\ ChildAt(CurrentPage(TreeRoot), 1) = 1

\* C21 (leaf split linkage): when an Insert that returns nil has split a leaf C
\* (the leaf whose pairs changed; P and N its previous and next leaf before the
\* call) by creating the leaf L', then afterwards L'.next = C, L'.prev = P,
\* C.prev = L', P.next = L' when P exists, and C.next is still N.
C21_LeafSplitLinkage ==
  [][(ret'.op = "Insert" /\ ret'.err = Nil) =>
       \A newLeaf \in nextPageID..(nextPageID' - 1) :
         (NodeType(frames'[pageTable'[newLeaf]].Page) = NodeTypeLeaf) =>
           \A c \in (DOMAIN pageTable) \ {tree[1].MetaPageID} :
             LET before == frames[pageTable[c]].Page
                 after == frames'[pageTable'[c]].Page
                 prev == PrevPageID(before)
                 next == NextPageID(before)
             IN (/\ NodeType(before) = NodeTypeLeaf
                 /\ [i \in 1..NumPairs(before) |-> PairAt(before, i - 1)]
                      # [i \in 1..NumPairs(after) |-> PairAt(after, i - 1)]) =>
                  /\ NextPageID(frames'[pageTable'[newLeaf]].Page) = c
                  /\ PrevPageID(frames'[pageTable'[newLeaf]].Page) = prev
                  /\ PrevPageID(after) = newLeaf
                  /\ (prev # InvalidPageID) =>
                       NextPageID(frames'[pageTable'[prev]].Page) = newLeaf
                  /\ NextPageID(after) = next]_vars

\* C22 (leaf split-insert distribution): for a leaf with pairs P and a new pair p
\* whose key is not in P and which Leaf.Insert refuses for lack of space, let S be
\* P with p at its lower-bound position and mid = floor(len(S) / 2); after
\* Leaf.SplitInsert the new sibling holds exactly S[0..mid), the current leaf
\* exactly S[mid..len(S)), and the returned key is the key of S[mid-1]: no pair
\* is dropped or duplicated.
C22_LeafSplitInsert ==
  (tree # NoTree) =>
    \A c \in (DOMAIN pageTable) \ {tree[1].MetaPageID} :
      \A key \in Keys : \A value \in Values :
        LET page == frames[pageTable[c]].Page
            P == [i \in 1..NumPairs(page) |-> PairAt(page, i - 1)]
            lower(q) == Compare(q.Key, key) < 0
            notLower(q) == ~lower(q)
            S == SelectSeq(P, lower) \o <<[Key |-> key, Value |-> value]>>
                   \o SelectSeq(P, notLower)
            mid == Len(S) \div 2
        IN (/\ NodeType(page) = NodeTypeLeaf
            /\ ~SearchSlotID(page, key)[2]
            /\ ~LeafInsert(page, SearchSlotID(page, key)[1], key, value).ok) =>
             \E r \in {LeafSplitInsert(page, ZeroPage, key, value)} :
               /\ [i \in 1..NumPairs(r.newPage) |-> PairAt(r.newPage, i - 1)]
                    = SubSeq(S, 1, mid)
               /\ [i \in 1..NumPairs(r.page) |-> PairAt(r.page, i - 1)]
                    = SubSeq(S, mid + 1, Len(S))
               /\ r.key = S[mid].Key

\* C23 (Branch.Insert contract): Branch.Insert(child_idx, key, new_child) returns
\* false and leaves the branch unchanged when the free space is below
\* 2 + len(key) + 8; otherwise the keys become keys[0..child_idx) + [key] +
\* keys[child_idx..), the children become children[0..child_idx] + [new_child] +
\* the rest (the new child at index child_idx + 1), and num_children grows by one.
C23_BranchInsert ==
  [][(ret'.op = "BranchInsert") =>
       LET before == ret.page
           after == ret'.page
           childIdx == ret'.childIdx
           keys == [i \in 1..NumKeys(before) |-> KeyAt(before, i - 1)]
           children == [i \in 1..NumChildren(before) |-> ChildAt(before, i - 1)]
       IN IF branchFreeSpace(before) < 2 + Len(ret'.key) + 8
          THEN ~ret'.ok /\ after = before
          ELSE /\ ret'.ok
               /\ NumChildren(after) = NumChildren(before) + 1
               /\ [i \in 1..NumKeys(after) |-> KeyAt(after, i - 1)]
                    = SubSeq(keys, 1, childIdx) \o <<ret'.key>>
                        \o SubSeq(keys, childIdx + 1, Len(keys))
               /\ [i \in 1..NumChildren(after) |-> ChildAt(after, i - 1)]
                    = SubSeq(children, 1, childIdx + 1) \o <<ret'.child>>
                        \o SubSeq(children, childIdx + 2, Len(children))]_vars

\* C26 (branch capacity): after Branch.Initialize and any sequence of successful
\* Branch.Insert calls a branch holds at most maxKeys = 100 keys (at most 101
\* children), the key-slot array ends at or before the start of the child-id
\* array, and the child-id array ends at or before the key records.
C26_BranchCapacity ==
  (ret.op \in {"BranchInitialize", "BranchFill", "BranchInsert"}) =>
    /\ NumKeys(ret.page) <= maxKeys
    /\ NumChildren(ret.page) <= maxKeys + 1
    /\ keySlotOffset(NumKeys(ret.page)) <= childOffset(0)
    /\ childOffset(NumChildren(ret.page)) <= branchFreeSpaceOffset(ret.page)

\* C24 (branch split-insert promotion): for a branch with keys K and children C,
\* Branch.SplitInsert splices the new key at its upper-bound position in K and the
\* new child right after the child at that position, giving K' and C'; with
\* mid = floor(len(K') / 2) it returns K'[mid], the sibling ends with keys
\* K'[0..mid) and children C'[0..mid], and the current node with keys
\* K'[mid+1..) and children C'[mid+1..]: the promoted key is in neither half and
\* every child of C' is in exactly one half.
C24_BranchSplitInsert ==
  [][(ret'.op = "BranchSplitInsert") =>
       LET before == ret'.before
           K == [i \in 1..NumKeys(before) |-> KeyAt(before, i - 1)]
           C == [i \in 1..NumChildren(before) |-> ChildAt(before, i - 1)]
           notAfter(k) == Compare(k, ret'.key) <= 0
           pos == Len(SelectSeq(K, notAfter))
           K1 == SubSeq(K, 1, pos) \o <<ret'.key>> \o SubSeq(K, pos + 1, Len(K))
           C1 == SubSeq(C, 1, pos + 1) \o <<ret'.child>> \o SubSeq(C, pos + 2, Len(C))
           mid == Len(K1) \div 2
       IN /\ ~ret'.panic
          /\ ret'.overflowKey = K1[mid + 1]
          /\ \A i \in 0..(NumKeys(ret'.newPage) - 1) : ~KeyAtPanics(ret'.newPage, i)
          /\ \A i \in 0..(NumKeys(ret'.page) - 1) : ~KeyAtPanics(ret'.page, i)
          /\ [i \in 1..NumKeys(ret'.newPage) |-> KeyAt(ret'.newPage, i - 1)]
               = SubSeq(K1, 1, mid)
          /\ [i \in 1..NumChildren(ret'.newPage) |-> ChildAt(ret'.newPage, i - 1)]
               = SubSeq(C1, 1, mid + 1)
          /\ [i \in 1..NumKeys(ret'.page) |-> KeyAt(ret'.page, i - 1)]
               = SubSeq(K1, mid + 2, Len(K1))
          /\ [i \in 1..NumChildren(ret'.page) |-> ChildAt(ret'.page, i - 1)]
               = SubSeq(C1, mid + 2, Len(C1))]_vars

\* C25 (pins are never released): no call decrements a frame's refCount, and a
\* page that is in the page table stays there, mapped to the same frame; once as
\* many pages as the pool has frames are resident, the pool stays full, every
\* later CreatePage, Create and FetchPage of a non-resident page returns
\* ErrNoFreeBuffer, no page is allocated any more, and an Insert that returns nil
\* is one that needed no new page.
C25_PinsNeverReleased ==
  [][/\ \A f \in DOMAIN frames : frames'[f].refCount >= frames[f].refCount
     /\ \A p \in DOMAIN pageTable :
          p \in DOMAIN pageTable' /\ pageTable'[p] = pageTable[p]
     /\ (Cardinality(DOMAIN pageTable) = Size(Mach)) =>
          /\ Cardinality(DOMAIN pageTable') = Size(Mach)
          /\ nextPageID' = nextPageID
          /\ (ret'.op \in {"CreatePage", "Create"}) => ret'.err = ErrNoFreeBuffer
          /\ (ret'.op = "FetchPage" /\ ret'.pageID \notin DOMAIN pageTable) =>
               ret'.err = ErrNoFreeBuffer
          /\ (ret'.op = "Insert") =>
               \/ ret'.err \in {ErrNoFreeBuffer, ErrDuplicateKey}
               \/ ret'.err = Nil /\ heapFile' = heapFile]_vars

\* An Insert that needed a new page failed on a pool that was full before the
\* call: its third frame holds a page made by CreatePage, still blank.
C25_Witness ==
  /\ Cardinality(DOMAIN pageTable) = Size(Mach)
  /\ ret.op = "Insert"
  /\ ret.err = ErrNoFreeBuffer
  /\ \E p \in DOMAIN pageTable : frames[pageTable[p]].Page = ZeroPage
  /\ \A f \in DOMAIN frames : frames[f].refCount >= 1

\* C27 (page-table consistency): after every call, failed ones included, every
\* page-table entry p -> f has frames[f].PageID = p and frames[f].isValid, no two
\* page ids map to the same frame, and a FetchPage or CreatePage that returned an
\* error leaves the page table exactly as it was.
C27_PageTableConsistency ==
  [][/\ \A p \in DOMAIN pageTable' :
          /\ frames'[pageTable'[p]].PageID = p
          /\ frames'[pageTable'[p]].isValid
     /\ \A p \in DOMAIN pageTable' : \A q \in DOMAIN pageTable' :
          (pageTable'[p] = pageTable'[q]) => p = q
     /\ (ret'.op \in {"FetchPage", "CreatePage"} /\ ret'.err # Nil) =>
          pageTable' = pageTable]_vars

\* A FetchPage of a page past the end of the file failed in its read, with pages
\* resident: the frame it took is valid and holds an id that is not in the table.
C27_Witness ==
  /\ ret.op = "FetchPage"
  /\ ret.err \notin {Nil, ErrNoFreeBuffer}
  /\ DOMAIN pageTable # {}
  /\ \E f \in DOMAIN frames :
       frames[f].isValid /\ frames[f].PageID \notin DOMAIN pageTable

C30_LeafInsert ==
  [][(ret'.op \in {"LeafInitialize", "LeafInsert"}) =>
       /\ LeafHeaderSize + LeafSlotSize * NumPairs(ret'.page)
            <= leafFreeSpaceOffset(ret'.page)
       /\ leafFreeSpaceOffset(ret'.page) <= BodySize
       /\ (ret'.op = "LeafInsert") =>
            LET before == ret'.before
                after == ret'.page
                size == 4 + Len(ret'.key) + Len(ret'.value)
                pairs == [i \in 1..NumPairs(before) |-> PairAt(before, i - 1)]
            IN IF leafFreeSpace(before) < 2 + size
               THEN ~ret'.ok /\ after = before
               ELSE /\ ret'.ok
                    /\ NumPairs(after) = NumPairs(before) + 1
                    /\ leafFreeSpaceOffset(after) = leafFreeSpaceOffset(before) - size
                    /\ [i \in 1..NumPairs(after) |-> PairAt(after, i - 1)]
                         = SubSeq(pairs, 1, ret'.slotID)
                             \o <<[Key |-> ret'.key, Value |-> ret'.value]>>
                             \o SubSeq(pairs, ret'.slotID + 1, Len(pairs))]_vars

\* A leaf filled to the last byte by inserts in scattered key order refused the
\* next pair.
C30_Witness ==
  /\ ret.op = "LeafInsert"
  /\ ~ret.ok
  /\ ret.mode = "mixed"
  /\ leafFreeSpace(ret.page) = 0
  /\ NumPairs(ret.page) >= 4

\* C29 (search positions): on a leaf with sorted distinct keys SearchSlotID(key)
\* returns (i, true) with i the slot of the equal key when there is one, and
\* otherwise (i, false) with i the number of stored keys < key; on a branch with
\* sorted separators SearchChildIdx(key) returns the number of separators <= key,
\* so that a key equal to a separator descends to the child on the right of it;
\* and a Start search descends to child 0 and to slot 0.
C29_SearchPositions ==
  /\ (ret.op \in {"LeafInitialize", "LeafInsert"}) =>
       LET page == ret.page
           n == NumPairs(page)
           keys == [i \in 1..n |-> PairAt(page, i - 1).Key]
       IN /\ \A i \in 1..(n - 1) : Compare(keys[i], keys[i + 1]) < 0
          /\ tupleSlotID(NewSearchStart, page) = <<0, FALSE>>
          /\ \A c \in 0..(ret.count + 1) : \A tail \in {<<>>, <<0>>} :
               \E key \in {NodeKey(ret.mode, ShortKeyLen, c) \o tail} :
                 tupleSlotID(NewSearchKey(key), page) =
                   IF \E i \in 1..n : keys[i] = key
                   THEN <<(CHOOSE i \in 1..n : keys[i] = key) - 1, TRUE>>
                   ELSE <<Cardinality({i \in 1..n : Compare(keys[i], key) < 0}), FALSE>>
  /\ (ret.op \in {"BranchInitialize", "BranchFill", "BranchInsert"}) =>
       LET page == ret.page
           n == NumKeys(page)
           keys == [i \in 1..n |-> KeyAt(page, i - 1)]
       IN /\ \A i \in 1..(n - 1) : Compare(keys[i], keys[i + 1]) < 0
          /\ childPageID(NewSearchStart, page) = ChildAt(page, 0)
          /\ \A c \in 0..(ret.count + 1) : \A tail \in {<<>>, <<0>>} :
               \E key \in {NodeKey(ret.mode, ret.keyLen, c) \o tail} :
                 /\ SearchChildIdx(page, key)
                      = Cardinality({i \in 1..n : Compare(keys[i], key) <= 0})
                 /\ childPageID(NewSearchKey(key), page)
                      = ChildAt(page, SearchChildIdx(page, key))
                 /\ \A i \in 1..n :
                      (keys[i] = key) => SearchChildIdx(page, key) = i

\* The searches on a branch of more than 90 separators that arrived in
\* descending order.
C29_Witness ==
  /\ ret.op = "BranchInsert"
  /\ ret.ok
  /\ ret.mode = "front"
  /\ NumKeys(ret.page) > 90

\* The leaf a search reaches from a node: the descent of searchInternal.
RECURSIVE ReachedLeaf(_, _)
ReachedLeaf(pageID, search) ==
  IF NodeType(CurrentPage(pageID)) = NodeTypeLeaf
  THEN pageID
  ELSE ReachedLeaf(childPageID(search, CurrentPage(pageID)), search)

\* The search that opened the iterator was a key search whose slot in the leaf
\* it reached is the number of pairs of that leaf.
SearchPastLeaf ==
  /\ ret.search.Mode = "Key"
  /\ \E page \in {CurrentPage(ReachedLeaf(TreeRoot, ret.search))} :
       tupleSlotID(ret.search, page)[1] = NumPairs(page)

\* C31 (Iterator protocol): with no insert between the calls, no Search and no
\* Next of the scan fails; each Next returns the pair at the iterator's slot
\* (nil when the slot is past the last pair) and then advances: to the next slot
\* of the leaf, or to slot 0 of the next leaf when the leaf is exhausted and its
\* next_page_id is set, and otherwise it stays on the leaf; once a Next has
\* returned nil every later Next returns nil; and a Search(Key(k)) whose slot
\* equals num_pairs of the leaf it reached leaves the iterator at slot 0 of the
\* next leaf, so that the first Next returns the first pair of that leaf, or,
\* when there is no next leaf, past the end, so that the first Next returns nil.
C31_IteratorProtocol ==
  /\ (ret.op \in {"Search", "Next"}) => ret.err = Nil /\ ret.it # <<>>
  /\ (ret.op = "Next") =>
       \E from \in {ret.from[1]} : \E it \in {ret.it[1]} :
       \E page \in {PageOf(Mach, from.buffer)} :
         /\ ret.pair = IF from.slotID < NumPairs(page)
                       THEN <<PairAt(page, from.slotID)>>
                       ELSE <<>>
         /\ IF from.slotID + 1 < NumPairs(page)
            THEN it = [buffer |-> from.buffer, slotID |-> from.slotID + 1]
            ELSE IF NextPageID(page) # InvalidPageID
                 THEN /\ frames[it.buffer].isValid
                      /\ frames[it.buffer].PageID = NextPageID(page)
                      /\ it.slotID = 0
                 ELSE /\ it.buffer = from.buffer
                      /\ it.slotID >= NumPairs(page)
         /\ ret.nilSeen => ret.pair = <<>>
  /\ (ret.op \in {"Search", "Next"} /\ SearchPastLeaf) =>
       \E leaf \in {CurrentPage(ReachedLeaf(TreeRoot, ret.search))} :
         IF NextPageID(leaf) # InvalidPageID
         THEN /\ NumPairs(CurrentPage(NextPageID(leaf))) > 0
              /\ (ret.op = "Search") =>
                   /\ frames[ret.it[1].buffer].PageID = NextPageID(leaf)
                   /\ ret.it[1].slotID = 0
              /\ (ret.op = "Next" /\ ret.nexts = 1) =>
                   ret.pair = <<PairAt(CurrentPage(NextPageID(leaf)), 0)>>
         ELSE /\ (ret.op = "Search") =>
                   get(Mach, ret.it[1]) = <<>>
              /\ (ret.op = "Next") => ret.pair = <<>>

\* A scan opened by a key search past the last pair of a leaf that has a next
\* leaf, which ran off the end of the chain and was asked again.
C31_Witness ==
  /\ ret.op = "Next"
  /\ ret.nilSeen
  /\ ret.pair = <<>>
  /\ SearchPastLeaf
  /\ \E leaf \in {CurrentPage(ReachedLeaf(TreeRoot, ret.search))} :
       /\ NextPageID(leaf) # InvalidPageID
       /\ frames[ret.it[1].buffer].PageID = NextPageID(leaf)

\* C32 (Evict terminates): on a pool of any size >= 1, in any state of usage
\* counts and pins, a call of Evict that has entered its loop returns after
\* finitely many iterations; it returns a frame index of the pool or
\* ErrNoFreeBuffer; it returns ErrNoFreeBuffer only when every frame is pinned;
\* and when some frame is unpinned the call returns a victim.
C32_EvictTerminates ==
  /\ (ret.op = "Evict" /\ ret.pc = "loop") ~> (ret.op = "Evict" /\ ret.pc = "done")
  /\ []((ret.op = "Evict" /\ ret.pc = "done") =>
          /\ ret.err \in {Nil, ErrNoFreeBuffer}
          /\ (ret.err = Nil) => ret.bufferID \in DOMAIN frames
          /\ (ret.err = ErrNoFreeBuffer) =>
               \A id \in DOMAIN frames : frames[id].refCount > 0)
  /\ (ret.op = "Evict" /\ ret.pc = "loop"
        /\ \E id \in DOMAIN frames : frames[id].refCount = 0)
       ~> (ret.op = "Evict" /\ ret.pc = "done" /\ ret.err = Nil)

\* A call on a pool of EvictFrames frames with a pinned frame in it that went
\* round the pool more than once before it returned a victim.
C32_Witness ==
  /\ ret.op = "Evict"
  /\ ret.pc = "done"
  /\ ret.err = Nil
  /\ Size(Mach) = EvictFrames
  /\ ret.steps > Size(Mach)
  /\ \E id \in DOMAIN frames : frames[id].refCount > 0

====
